---- MODULE Spec2Model ----
(***************************************************************************)
(* A model of personax's completion engine                                 *)
(* (src/personax/completion/openai.py): the tool-calling loop of           *)
(* OpenAICompletion in its atomic (_sync_complete) and its streaming       *)
(* (_stream_complete) form, with the provider transport and the tools as   *)
(* the environment.                                                        *)
(***************************************************************************)
EXTENDS Naturals, Sequences, FiniteSets, TLC

(***************************************************************************)
(* Bounds of the model.                                                    *)
(***************************************************************************)
\* provider requests of one completion call
MaxTurns == 3
\* tool calls the provider asks for over one atomic completion call
MaxCalls == 2
\* fragments the provider delivers over one streaming completion call
MaxFrags == 3
\* items the producer of an AsyncStream yields
MaxItems == 3
\* iterations of one AsyncStream
MaxPasses == 3

(***************************************************************************)
(* Values.                                                                 *)
(***************************************************************************)
\* Python's None, kept apart from every text the environment produces
None == "<None>"

\* UNSET, the default of an optional parameter the caller did not supply
Unset == "<Unset>"

\* a value is truthy in Python: neither None nor the empty text
Truthy(v) == v # None /\ v # ""

\* `x or ""`
OrEmpty(v) == IF Truthy(v) THEN v ELSE ""

\* the last element of a non-empty sequence
Last(s) == s[Len(s)]

\* sequences over S of length 0..n
SeqsUpTo(S, n) == UNION {[1..k -> S] : k \in 0..n}

(***************************************************************************)
(* Ledger entries (types/compat/message.py, types/compat/tool_calls.py).   *)
(***************************************************************************)
Message(role, content) ==
    [type |-> "Message", role |-> role, content |-> content]

Function(name, arguments) == [name |-> name, arguments |-> arguments]

ToolCallsParams(call_id, function) ==
    [type |-> "ToolCallsParams", call_id |-> call_id, function |-> function]

ToolCalls(call_id, content) ==
    [type |-> "ToolCalls", call_id |-> call_id, content |-> content]

(***************************************************************************)
(* The environment: what the caller, the provider and the tools may do.    *)
(***************************************************************************)
\* the message sequences a caller supplies
CallerMessages ==
    { << Message("system", "You are helpful"), Message("user", "Weather in Beijing?") >> }

\* the tools of the call, by __function_name__
ToolNames == {"get_weather"}

\* function names the model may ask for
Names == {"get_weather", "lookup"}

\* tool-call ids the provider may hand out
Ids == {"c1", "c2"}

\* the arguments text of a tool call: a JSON object, and a truncated one
GoodArgs == "{\"adcode\":\"110000\"}"
BadArgs == "{\"adcode\":"
ArgTexts == {GoodArgs, BadArgs}

\* the content of a provider turn
Contents == {None, "It's 15C and sunny."}

\* the provider's finish reasons
FinishReasons == {"stop", "length", "tool_calls", "content_filter", "function_call", None}

\* a tool call of an atomic turn: a function tool call, or a custom one
FunctionToolCalls ==
    { [type |-> "function", id |-> id, function |-> Function(n, a)] :
        id \in Ids, n \in Names, a \in ArgTexts }

CustomToolCalls == { [type |-> "custom", id |-> "c1"] }

ProviderToolCalls == FunctionToolCalls \cup CustomToolCalls

\* a turn (choice) of the provider
Choice(content, tool_calls, finish_reason) ==
    [content |-> content, tool_calls |-> tool_calls, finish_reason |-> finish_reason]

\* the turns the provider may return when n more tool calls fit the model: a
\* turn without tool calls ends for any reason, one with tool calls ends
\* with tool_calls
ProviderTurns(n) ==
    { Choice(c, <<>>, fr) : c \in Contents, fr \in FinishReasons }
    \cup { Choice(c, tcs, "tool_calls") :
             c \in Contents, tcs \in SeqsUpTo(ProviderToolCalls, n) \ {<<>>} }

\* Python values: a text, an int, a float (by its repr), a bool, None, a list
\* of values, a dict (its items in insertion order)
Str(text) == [str |-> text]
Int(n) == [int |-> n]
Float(repr) == [float |-> repr]
Bool(b) == [bool |-> b]
NoneValue == [none |-> TRUE]
List(items) == [list |-> items]
Dict(items) == [dict |-> items]

\* the value is of the kind named
Is(kind, value) == kind \in DOMAIN value

\* what a tool returns
ToolResults == {Str("Sunny, 15C")}

\* how a tool invocation ends: it returns a value or raises; ToolCallError is
\* the designated tool-call error, Exception stands for any other exception
Returned(value) == [kind |-> "return", value |-> value]
Raised(exc) == [kind |-> "raise", exc |-> exc]
NoOutcome == [kind |-> "none"]
Outcomes ==
    { Returned(r) : r \in ToolResults } \cup { Raised("ToolCallError"), Raised("Exception") }

\* the rest of an arguments text cut after BadArgs
ArgsTail == "\"110000\"}"

\* a tool-call delta that carries no function part (tool_call.function is None)
NoFunction == [absent |-> TRUE]

\* a tool-call delta of a streamed fragment
Delta(index, id, function) == [index |-> index, id |-> id, function |-> function]

\* the tool-call deltas the provider may send: whole calls, calls cut in
\* pieces, a missing id, a delta without a function
Deltas ==
    { Delta(0, "c1", Function("get_weather", GoodArgs)),
      Delta(0, "c1", Function("get_", None)),
      Delta(0, None, Function("weather", BadArgs)),
      Delta(0, None, Function(None, ArgsTail)),
      Delta(1, None, Function("lookup", BadArgs)),
      Delta(0, "c2", NoFunction) }

\* a fragment (ChatCompletionChunk) of a streamed turn
Fragment(has_choice, content, tool_calls, finish_reason) ==
    [has_choice |-> has_choice, content |-> content,
     tool_calls |-> tool_calls, finish_reason |-> finish_reason]

StreamContent == "It's 15C"

\* the fragments the provider may send
Fragments ==
    { Fragment(FALSE, None, <<>>, None),
      Fragment(TRUE, StreamContent, <<>>, None),
      Fragment(TRUE, StreamContent, <<>>, "stop"),
      Fragment(TRUE, StreamContent,
               << Delta(1, "c2", Function("lookup", GoodArgs)) >>, None),
      Fragment(TRUE, None,
               << Delta(0, "c1", Function("get_weather", GoodArgs)),
                  Delta(1, "c2", Function("lookup", GoodArgs)) >>, None) }
    \cup { Fragment(TRUE, None, <<>>, fr) : fr \in FinishReasons \ {None} }
    \cup { Fragment(TRUE, None, << d >>, None) : d \in Deltas }


(***************************************************************************)
(* Pure helpers of the engine.                                             *)
(***************************************************************************)
\* a faulty map_finish_reason that lets every provider reason through
map_finish_reason_unmapped(reason) == IF Truthy(reason) THEN reason ELSE "stop"

\* map_finish_reason: stop, length and content_filter map to themselves,
\* everything else (tool_calls, function_call, None) to stop
map_finish_reason(reason) ==
    IF Truthy(reason) /\ reason \in {"stop", "length", "content_filter"}
    THEN reason
    ELSE "stop"

\* json.loads on an arguments text: the text parses, or JSONDecodeError
JsonLoads(text) ==
    IF text = GoodArgs
    THEN [ok |-> TRUE, value |-> [adcode |-> "110000"]]
    ELSE [ok |-> FALSE, value |-> None]

\* a faulty placeholder that leaves the tool's name out
NotAvailableUnnamed(func_name) == "Tool not available"

\* f"Tool {func_name} not available"
NotAvailable(func_name) == "Tool " \o func_name \o " not available"

\* f"Error executing tool {func_name}"
ErrorExecuting(func_name) == "Error executing tool " \o func_name

Digits == << "0", "1", "2", "3", "4", "5", "6", "7", "8", "9" >>

\* str(n) of a natural number, of an int
RECURSIVE NatStr(_)
NatStr(n) == IF n < 10 THEN Digits[n + 1] ELSE NatStr(n \div 10) \o Digits[(n % 10) + 1]
IntStr(n) == IF n < 0 THEN "-" \o NatStr(0 - n) ELSE NatStr(n)

\* json.dumps with its default separators, of values whose texts hold no
\* character that JSON escapes
RECURSIVE json_dumps(_), DumpsItems(_), DumpsPairs(_)
json_dumps(value) ==
    CASE Is("str", value) -> "\"" \o value.str \o "\""
      [] Is("int", value) -> IntStr(value.int)
      [] Is("float", value) -> value.float
      [] Is("bool", value) -> IF value.bool THEN "true" ELSE "false"
      [] Is("none", value) -> "null"
      [] Is("list", value) -> "[" \o DumpsItems(value.list) \o "]"
      [] Is("dict", value) -> "{" \o DumpsPairs(value.dict) \o "}"
DumpsItems(items) ==
    IF items = <<>> THEN ""
    ELSE json_dumps(Head(items))
         \o (IF Len(items) > 1 THEN ", " \o DumpsItems(Tail(items)) ELSE "")
DumpsPairs(items) ==
    IF items = <<>> THEN ""
    ELSE "\"" \o Head(items)[1] \o "\": " \o json_dumps(Head(items)[2])
         \o (IF Len(items) > 1 THEN ", " \o DumpsPairs(Tail(items)) ELSE "")

\* a faulty encoding that JSON-encodes the texts of a list as well
ResultStrDumpsTexts(tool_result) ==
    IF Is("str", tool_result) THEN tool_result.str
    ELSE IF Is("list", tool_result)
    THEN [k \in 1..Len(tool_result.list) |-> json_dumps(tool_result.list[k])]
    ELSE json_dumps(tool_result)

\* what a tool result is stored as (result_str) by _sync_complete
ResultStr(tool_result) ==
    IF Is("str", tool_result) THEN tool_result.str
    ELSE IF Is("list", tool_result)
    THEN [k \in 1..Len(tool_result.list) |->
            IF ~Is("str", tool_result.list[k])
            THEN json_dumps(tool_result.list[k]) ELSE tool_result.list[k].str]
    ELSE json_dumps(tool_result)

\* what a tool result is stored as (result_str) by _stream_complete
StreamResultStr(tool_result) ==
    IF Is("str", tool_result) THEN tool_result.str
    ELSE IF Is("list", tool_result)
    THEN [k \in 1..Len(tool_result.list) |->
            IF ~Is("str", tool_result.list[k])
            THEN json_dumps(tool_result.list[k]) ELSE tool_result.list[k].str]
    ELSE json_dumps(tool_result)

\* `if func_name in tools_map`
InToolsMap(func_name) == func_name \in ToolNames

\* a faulty except clause that catches nothing, and one that catches everything
CaughtNothing(exc) == FALSE
CaughtEverything(exc) == TRUE

\* `except ToolCallError`: the exceptions of a tool the engine catches
Caught(exc) == exc = "ToolCallError"

\* `if choice.message.tool_calls:` a turn with tool calls makes the loop go on
HasToolCalls(tool_calls) == tool_calls # <<>>

\* a faulty engine that does not record the request
AppendParamsSkipped(ledger, tool_params) == ledger

\* msgs.append(tool_params)
AppendParams(ledger, tool_params) == Append(ledger, tool_params)

\* a faulty engine that records an assistant message only when it has text
AppendAssistantIfText(ledger, content) ==
    IF content # "" THEN Append(ledger, Message("assistant", content)) ELSE ledger

\* msgs.append(Message(role="assistant", content=...)), whatever the content
AppendAssistant(ledger, content) == Append(ledger, Message("assistant", content))

\* the buffer entries with a given index
AtIndex(buffer, index) == { k \in 1..Len(buffer) : buffer[k].index = index }

\* a faulty fold that takes the id from every delta, not from the first only
ApplyDeltaLatestId(buffer, d) ==
    LET opened == IF AtIndex(buffer, d.index) = {}
                  THEN Append(buffer, [index |-> d.index, id |-> "",
                                       function |-> Function("", "")])
                  ELSE buffer
        k == CHOOSE k \in AtIndex(opened, d.index) : TRUE
        old == opened[k].function
        new == IF d.function = NoFunction THEN old
               ELSE Function(
                      IF Truthy(d.function.name) THEN old.name \o d.function.name
                                                 ELSE old.name,
                      IF Truthy(d.function.arguments)
                      THEN old.arguments \o d.function.arguments
                      ELSE old.arguments)
    IN [opened EXCEPT ![k].function = new, ![k].id = OrEmpty(d.id)]

\* a faulty fold that keeps the latest piece of a name or an arguments text
\* instead of appending it
ApplyDeltaOverwrite(buffer, d) ==
    LET opened == IF AtIndex(buffer, d.index) = {}
                  THEN Append(buffer, [index |-> d.index, id |-> OrEmpty(d.id),
                                       function |-> Function("", "")])
                  ELSE buffer
        k == CHOOSE k \in AtIndex(opened, d.index) : TRUE
        old == opened[k].function
        new == IF d.function = NoFunction THEN old
               ELSE Function(
                      IF Truthy(d.function.name) THEN d.function.name ELSE old.name,
                      IF Truthy(d.function.arguments) THEN d.function.arguments
                                                      ELSE old.arguments)
    IN [opened EXCEPT ![k].function = new]

\* one tool-call delta folded into tool_calls_buffer: the first delta of an
\* index opens its entry with that delta's id, name and arguments accumulate
ApplyDelta(buffer, d) ==
    LET opened == IF AtIndex(buffer, d.index) = {}
                  THEN Append(buffer, [index |-> d.index, id |-> OrEmpty(d.id),
                                       function |-> Function("", "")])
                  ELSE buffer
        k == CHOOSE k \in AtIndex(opened, d.index) : TRUE
        old == opened[k].function
        new == IF d.function = NoFunction THEN old
               ELSE Function(
                      IF Truthy(d.function.name) THEN old.name \o d.function.name
                                                 ELSE old.name,
                      IF Truthy(d.function.arguments)
                      THEN old.arguments \o d.function.arguments
                      ELSE old.arguments)
    IN [opened EXCEPT ![k].function = new]

\* `for tool_call in delta.tool_calls`
RECURSIVE ApplyDeltas(_, _)
ApplyDeltas(buffer, deltas) ==
    IF deltas = <<>> THEN buffer
    ELSE ApplyDeltas(ApplyDelta(buffer, Head(deltas)), Tail(deltas))

\* the delta of a chunk: a CompletionMessage, of which the engine sets the content
CompletionChunkDelta(content) == [reason |-> None, content |-> content, refusal |-> None]

\* a CompletionChunk
CompletionChunk(id, delta, finish_reason) ==
    [id |-> id, delta |-> delta, finish_reason |-> finish_reason]

\* the id the provider gives the completion of its n-th request: every
\* fragment of that completion carries it, and no two completions share one
ProviderId(n) ==
    CASE n = 1 -> "chatcmpl-1"
      [] n = 2 -> "chatcmpl-2"
      [] n = 3 -> "chatcmpl-3"
      [] OTHER -> "chatcmpl-n"

(***************************************************************************)
(* State.                                                                  *)
(***************************************************************************)
VARIABLES
    mode,        \* "atomic" (stream=False) or "stream" (stream=True)
    messages,    \* the message sequence the caller supplied
    msgs,        \* the engine's ledger (msgs / msg_list), a copy of messages
    pc,          \* where the engine is
    iteration,   \* provider requests sent so far
    choice,      \* the turn the provider returned last (atomic mode)
    i,           \* position of the tool call being processed in the turn
    result,      \* the Completion complete returned, NoResult before
    error,       \* the exception that left the engine, None if none
    outcome,     \* how the tool invocation under way ended
    content_buffer,     \* the text of the streamed turn so far
    tool_calls_buffer,  \* the tool calls of the streamed turn so far, in insertion order
    has_tool_calls,     \* the streamed turn has carried a tool-call delta
    chunks,      \* the chunks yielded so far
    turns,       \* history: content and tool calls of every provider turn so far
    frags,       \* history: the fragments the provider has delivered so far, each
                 \* with the number of its turn
    chatcmpl_id, \* the completion id the caller supplied, Unset if none
    chunk_turns, \* history: for every chunk yielded, the number of its turn
    request,     \* the wire messages of the provider request sent last
    stream,      \* the AsyncStream complete returned (streaming mode)
    source,      \* the producer an AsyncStream wraps: what it is to yield and how it ends
    started,     \* how many times the producer has been started
    cursor,      \* how many items the producer has yielded
    passes,      \* the iterations of the AsyncStream so far
    derived,     \* a stream composed over the AsyncStream by a combinator
    encoding,    \* a tool result and the ToolCalls content each mode made of it
    schema,      \* a tool parameter's annotation and the schema derived from it
    pipeline,    \* the messages on their way through Core.complete
    resource,    \* a file resource and the file it loads
    singleton,   \* a class under the singleton decorator and its callers
    orch,        \* an Orch and the outcome of the last call on it
    cache        \* a CachetoolsKVCache, the clock and the last call on it

atomicVars == << choice, result >>

streamVars == << content_buffer, tool_calls_buffer, has_tool_calls, chunks, frags,
                 chunk_turns >>

\* the state of an AsyncStream over a producer of its own
producerVars == << source, started, cursor, passes >>

\* what a completion call never changes
\* the state of the library's other components
componentVars == << encoding, schema, pipeline, resource, singleton, orch, cache >>

fixedVars == << mode, chatcmpl_id, producerVars, derived, componentVars >>

engineVars == << mode, messages, msgs, pc, iteration, choice, i, result, error, outcome,
                 content_buffer, tool_calls_buffer, has_tool_calls, chunks, turns, frags,
                 chatcmpl_id, chunk_turns, request >>

vars == << engineVars, stream, producerVars, derived, componentVars >>

\* the id of the chunks of the turn under way
ChunkId == IF chatcmpl_id = Unset THEN ProviderId(iteration) ELSE chatcmpl_id

\* a faulty ChunksOf whose content chunk carries the text buffered so far
ChunksOfCumulative(f) ==
    (IF Truthy(f.content)
     THEN << CompletionChunk(ChunkId, CompletionChunkDelta(content_buffer \o f.content),
                IF Truthy(f.finish_reason) THEN map_finish_reason(f.finish_reason)
                                           ELSE None) >>
     ELSE <<>>)
    \o
    (IF Truthy(f.finish_reason)
     THEN << CompletionChunk(ChunkId, CompletionChunkDelta(None),
                             map_finish_reason(f.finish_reason)) >>
     ELSE <<>>)

\* a faulty ChunksOf that also surfaces a fragment's tool-call deltas
ChunksOfToolCalls(f) ==
    (IF Truthy(f.content)
     THEN << CompletionChunk(ChunkId, CompletionChunkDelta(f.content),
                IF Truthy(f.finish_reason) THEN map_finish_reason(f.finish_reason)
                                           ELSE None) >>
     ELSE <<>>)
    \o
    (IF f.tool_calls # <<>>
     THEN << CompletionChunk(ChunkId, CompletionChunkDelta(None), None) >>
     ELSE <<>>)
    \o
    (IF Truthy(f.finish_reason)
     THEN << CompletionChunk(ChunkId, CompletionChunkDelta(None),
                             map_finish_reason(f.finish_reason)) >>
     ELSE <<>>)

\* the chunks one fragment yields: its content, then its finish signal
ChunksOf(f) ==
    (IF Truthy(f.content)
     THEN << CompletionChunk(ChunkId, CompletionChunkDelta(f.content),
                IF Truthy(f.finish_reason) THEN map_finish_reason(f.finish_reason)
                                           ELSE None) >>
     ELSE <<>>)
    \o
    (IF Truthy(f.finish_reason)
     THEN << CompletionChunk(ChunkId, CompletionChunkDelta(None),
                             map_finish_reason(f.finish_reason)) >>
     ELSE <<>>)

(***************************************************************************)
(* AsyncStream (types/stream.py): the first iteration takes the items from *)
(* the source and caches them, later iterations replay the cache.          *)
(***************************************************************************)
\* AsyncStream.__init__
AsyncStream ==
    [is_consumed |-> FALSE, items |-> <<>>, error |-> None, completed |-> FALSE]

\* the first pass of __aiter__ is under way: the stream is marked consumed and
\* the items the source yields are appended to the cache before they are yielded
Cached(s, new_items) == [s EXCEPT !.is_consumed = TRUE, !.items = @ \o new_items]

\* the source ended: the finally clause marks the stream completed
Exhausted(s) == [s EXCEPT !.is_consumed = TRUE, !.completed = TRUE]

\* a faulty handler that swallows the error of the source
FailedUnrecorded(s, e) == [s EXCEPT !.is_consumed = TRUE, !.completed = TRUE]

\* a faulty handler that drops the cache when the source raises
FailedClearsCache(s, e) ==
    [s EXCEPT !.is_consumed = TRUE, !.items = <<>>, !.error = e, !.completed = TRUE]

\* the source raised: the error is recorded and raised again, the finally
\* clause marks the stream completed
Failed(s, e) == [s EXCEPT !.is_consumed = TRUE, !.error = e, !.completed = TRUE]

\* the stream after a step of the generator it wraps that yields nothing
AfterStep(s, new_pc, new_error) ==
    IF new_pc = "raised" THEN Failed(s, new_error)
    ELSE IF new_pc = "done" THEN Exhausted(s)
    ELSE Cached(s, <<>>)

\* the producer of an AsyncStream of its own has not been set up
NoSource == [items |-> <<>>, raises |-> FALSE, mapper |-> None]

\* what a producer yields
Items == {1, 2}

\* the producers an AsyncStream may wrap: an async iterable that yields its
\* items and then ends or raises, with or without a mapper
Sources ==
    [items : SeqsUpTo(Items, MaxItems), raises : BOOLEAN, mapper : {None, "double"}]

\* `self._mapper(raw_item) if self._mapper else raw_item`
Mapped(mapper, raw_item) == IF mapper = None THEN raw_item ELSE 2 * raw_item

\* a faulty test that takes every iteration for the first
IsReplayNever(s) == FALSE

\* `if self._is_consumed`: the iteration replays the cache
IsReplay(s) == s.is_consumed

\* an iteration of the stream: first tells whether it reads the source, pos
\* is the replay's position in the cache, seen what it has yielded, state
\* how it stands; on_completed records whether the stream was completed
\* when the iteration began
Pass(first, on_completed) ==
    [first |-> first, pos |-> 0, seen |-> <<>>, state |-> "running",
     on_completed |-> on_completed]

\* the iteration of the source a derived stream's generator runs
\* (`async for item in self`): not begun
NoInner == [state |-> "none", first |-> FALSE, pos |-> 0]

\* no stream has been composed: op tells the combinator, arg its argument, s
\* is the derived AsyncStream, inner its generator's iteration of the source,
\* count and batch are the generator's locals, tapped what a tap action has
\* been called with, pulled the items the generator has taken from the source
NoDerived ==
    [op |-> None, arg |-> 0, s |-> AsyncStream, inner |-> NoInner,
     count |-> 0, batch |-> <<>>, tapped |-> <<>>, pulled |-> <<>>]

NoChoice == Choice(None, <<>>, None)

\* a component nothing has used
Unused == [used |-> FALSE]

\* every component but the one named is unused
ComponentsIdle(own) ==
    /\ own = "encoding" \/ encoding = Unused
    /\ own = "schema" \/ schema = Unused
    /\ own = "pipeline" \/ pipeline = Unused
    /\ own = "resource" \/ resource = Unused
    /\ own = "singleton" \/ singleton = Unused
    /\ own = "orch" \/ orch = Unused
    /\ own = "cache" \/ cache = Unused

(***************************************************************************)
(* The wire messages of a provider request: OpenAICompletion._build_msgs.  *)
(***************************************************************************)
\* no request has been sent
NoRequest == << >>

\* a system, user or assistant wire message
WireMessage(role, content) == [role |-> role, content |-> content]

\* an assistant wire message that carries tool-call records and no content
WireToolCalls(tool_calls) == [role |-> "assistant", tool_calls |-> tool_calls]

\* a tool-role wire message
WireToolMessage(content, tool_call_id) ==
    [role |-> "tool", content |-> content, tool_call_id |-> tool_call_id]

\* the tool-call record of a ToolCallsParams
WireToolCall(msg) ==
    [id |-> msg.call_id,
     function |-> Function(msg.function.name, msg.function.arguments),
     type |-> "function"]

\* the tool-call records a wire message carries
WireCallsOf(wire) == IF "tool_calls" \in DOMAIN wire THEN wire.tool_calls ELSE << >>

\* a faulty serializer that opens an assistant wire message for every
\* ToolCallsParams
AlwaysOpen(wires, msg) == Append(wires, WireToolCalls(<< WireToolCall(msg) >>))

\* a ToolCallsParams joins the last wire message if that is an assistant
\* message, else it opens an assistant wire message of its own
AttachOrOpen(wires, msg) ==
    IF wires # << >> /\ Last(wires).role = "assistant"
    THEN LET last == Last(wires)
             attached == IF "tool_calls" \in DOMAIN last
                         THEN [last EXCEPT !.tool_calls = Append(@, WireToolCall(msg))]
                         ELSE [role |-> last.role, content |-> last.content,
                               tool_calls |-> << WireToolCall(msg) >>]
         IN [wires EXCEPT ![Len(wires)] = attached]
    ELSE Append(wires, WireToolCalls(<< WireToolCall(msg) >>))

\* the loop body of _build_msgs for one ledger entry
BuildOne(wires, msg) ==
    IF msg.type = "Message"
    THEN IF msg.role \in {"system", "user", "assistant"}
         THEN Append(wires, WireMessage(msg.role, msg.content))
         ELSE wires
    ELSE IF msg.type = "ToolCallsParams"
    THEN AttachOrOpen(wires, msg)
    ELSE IF msg.type = "ToolCalls"
    THEN Append(wires, WireToolMessage(msg.content, msg.call_id))
    ELSE wires

RECURSIVE BuildFrom(_, _)
BuildFrom(wires, ledger) ==
    IF ledger = << >> THEN wires
    ELSE BuildFrom(BuildOne(wires, Head(ledger)), Tail(ledger))

_build_msgs(ledger) == BuildFrom(<< >>, ledger)

\* a faulty engine that appends to the caller's list itself
CallerSeesLedger(original, ledger) == ledger

\* `msgs = list(messages)`: the engine appends to a list of its own, so the
\* caller's sequence is as it was whatever the ledger has become
CallerSees(original, ledger) == original

\* complete has returned nothing yet
NoResult == [returned |-> FALSE]

\* a provider turn as the history keeps it
Turn(content, tool_calls) == [content |-> content, tool_calls |-> tool_calls]

\* tool calls the provider has asked for over the turns so far
RECURSIVE CallsIn(_)
CallsIn(ts) == IF ts = <<>> THEN 0 ELSE Len(Head(ts).tool_calls) + CallsIn(Tail(ts))

Init ==
    /\ mode \in {"atomic", "stream"}
    /\ messages \in CallerMessages
    /\ msgs = messages
    /\ pc = "request"
    /\ iteration = 0
    /\ choice = NoChoice
    /\ i = 0
    /\ result = NoResult
    /\ error = None
    /\ outcome = NoOutcome
    /\ content_buffer = ""
    /\ tool_calls_buffer = <<>>
    /\ has_tool_calls = FALSE
    /\ chunks = <<>>
    /\ turns = <<>>
    /\ frags = <<>>
    /\ chatcmpl_id \in IF mode = "stream" THEN {Unset, "cmpl-caller"} ELSE {Unset}
    /\ chunk_turns = <<>>
    /\ request = NoRequest
    /\ stream = AsyncStream
    /\ source = NoSource
    /\ started = 0
    /\ cursor = 0
    /\ passes = <<>>
    /\ derived = NoDerived
    /\ ComponentsIdle("")

(***************************************************************************)
(* The tool loop body, common to both modes.                               *)
(***************************************************************************)
\* a faulty loop that requests the next turn after the first tool call
AdvanceToRequest(calls, k) == pc' = "request" /\ i' = k

\* after the tool call at position k of a turn: the next one, or the next turn
Advance(calls, k) ==
    IF k < Len(calls)
    THEN pc' = "tools" /\ i' = k + 1
    ELSE pc' = "request" /\ i' = k

\* a function tool call: its ToolCallsParams is appended; an unknown tool gets
\* its placeholder result at once, a known one has its arguments parsed and
\* is invoked
ToolCallStep(calls) ==
    LET tool_call == calls[i]
        func_name == tool_call.function.name
        call_id   == tool_call.id
        tool_params == ToolCallsParams(call_id,
                           Function(func_name, tool_call.function.arguments))
    IN IF InToolsMap(func_name)
       THEN /\ msgs' = AppendParams(msgs, tool_params)
            /\ IF JsonLoads(tool_call.function.arguments).ok
               THEN pc' = "invoking" /\ error' = error
               ELSE pc' = "raised" /\ error' = "JSONDecodeError"
            /\ i' = i
       ELSE /\ msgs' = Append(AppendParams(msgs, tool_params),
                              ToolCalls(call_id, NotAvailable(func_name)))
            /\ Advance(calls, i)
            /\ error' = error

\* a faulty loop that moves on without waiting for the result of the call
ToolResultStepUnrecorded(calls) ==
    /\ msgs' = msgs
    /\ Advance(calls, i)
    /\ error' = error /\ outcome' = NoOutcome

\* the invocation has ended: a returned value becomes the ToolCalls entry, a
\* caught exception becomes its placeholder, any other exception leaves the engine
ToolResultStep(calls) ==
    LET tool_call == calls[i] IN
    IF outcome.kind = "return"
    THEN /\ msgs' = Append(msgs, ToolCalls(tool_call.id,
                                   IF mode = "atomic" THEN ResultStr(outcome.value)
                                   ELSE StreamResultStr(outcome.value)))
         /\ Advance(calls, i)
         /\ error' = error /\ outcome' = NoOutcome
    ELSE IF Caught(outcome.exc)
    THEN /\ msgs' = Append(msgs, ToolCalls(tool_call.id,
                                   ErrorExecuting(tool_call.function.name)))
         /\ Advance(calls, i)
         /\ error' = error /\ outcome' = NoOutcome
    ELSE /\ pc' = "raised" /\ error' = outcome.exc
         /\ UNCHANGED << msgs, i, outcome >>

\* the tool runs: it returns, raises ToolCallError, or raises something else
ToolRuns ==
    /\ pc = "invoking"
    /\ pc' = "invoked"
    /\ outcome' \in Outcomes
    /\ UNCHANGED << fixedVars, msgs, iteration, i, error,
                    turns, atomicVars, streamVars, stream, request >>
    /\ messages' = CallerSees(messages, msgs')

(***************************************************************************)
(* Atomic mode: OpenAICompletion._sync_complete.                           *)
(***************************************************************************)
\* a faulty Completion that carries the text of the call's first turn
FinalCompletionOfFirstTurn(ch) ==
    [content |-> IF Len(msgs) > Len(messages)
                 THEN msgs[Len(messages) + 1].content
                 ELSE ch.content,
     finish_reason |-> map_finish_reason(ch.finish_reason)]

\* the Completion built from the final turn
FinalCompletion(ch) ==
    [content |-> ch.content, finish_reason |-> map_finish_reason(ch.finish_reason)]

\* one round trip: the request is sent, the turn comes back, the assistant
\* message is appended, and the turn either starts its tool calls or is final
SyncRequest ==
    /\ mode = "atomic" /\ pc = "request" /\ iteration < MaxTurns
    /\ \E ch \in ProviderTurns(MaxCalls - CallsIn(turns)) :
          /\ iteration' = iteration + 1
          /\ choice' = ch
          /\ msgs' = AppendAssistant(msgs, OrEmpty(ch.content))
          /\ turns' = Append(turns, Turn(ch.content, ch.tool_calls))
          /\ IF HasToolCalls(ch.tool_calls)
             THEN pc' = "tools" /\ i' = 1 /\ result' = result
             ELSE pc' = "returned" /\ i' = i /\ result' = FinalCompletion(ch)
    /\ request' = _build_msgs(msgs)
    /\ UNCHANGED << fixedVars, error, outcome, streamVars, stream >>
    /\ messages' = CallerSees(messages, msgs')

\* the transport fails: the error leaves complete
SyncRequestFails ==
    /\ mode = "atomic" /\ pc = "request" /\ iteration < MaxTurns
    /\ iteration' = iteration + 1
    /\ pc' = "raised"
    /\ error' = "TransportError"
    /\ request' = _build_msgs(msgs)
    /\ UNCHANGED << fixedVars, msgs, i, outcome, turns, atomicVars, streamVars, stream >>
    /\ messages' = CallerSees(messages, msgs')

\* a tool call that is no function tool call is skipped
SyncSkipToolCall ==
    /\ mode = "atomic" /\ pc = "tools"
    /\ choice.tool_calls[i].type # "function"
    /\ Advance(choice.tool_calls, i)
    /\ UNCHANGED << fixedVars, msgs, iteration, error, outcome, turns,
                    atomicVars, streamVars, stream, request >>
    /\ messages' = CallerSees(messages, msgs')

SyncToolCall ==
    /\ mode = "atomic" /\ pc = "tools"
    /\ choice.tool_calls[i].type = "function"
    /\ ToolCallStep(choice.tool_calls)
    /\ UNCHANGED << fixedVars, iteration, outcome, turns, atomicVars, streamVars, stream,
                    request >>
    /\ messages' = CallerSees(messages, msgs')

SyncToolResult ==
    /\ mode = "atomic" /\ pc = "invoked"
    /\ ToolResultStep(choice.tool_calls)
    /\ UNCHANGED << fixedVars, iteration, turns, atomicVars, streamVars, stream, request >>
    /\ messages' = CallerSees(messages, msgs')

(***************************************************************************)
(* Streaming mode: the generator _stream_gen of                            *)
(* OpenAICompletion._stream_complete, driven by a consumer that drains it. *)
(***************************************************************************)
\* a streamed turn is requested and its buffers start empty
StreamRequest ==
    /\ mode = "stream" /\ pc = "request" /\ iteration < MaxTurns
    /\ iteration' = iteration + 1
    /\ content_buffer' = ""
    /\ tool_calls_buffer' = <<>>
    /\ has_tool_calls' = FALSE
    /\ pc' = "reading"
    /\ stream' = AfterStep(stream, pc', error)
    /\ request' = _build_msgs(msgs)
    /\ UNCHANGED << fixedVars, msgs, i, error, outcome, turns, atomicVars,
                    chunks, frags, chunk_turns >>
    /\ messages' = CallerSees(messages, msgs')

\* the transport fails on the request or while the turn is read
StreamTransportFails ==
    /\ mode = "stream"
    /\ \/ /\ pc = "request" /\ iteration < MaxTurns
          /\ iteration' = iteration + 1
          /\ request' = _build_msgs(msgs)
       \/ /\ pc = "reading"
          /\ UNCHANGED << iteration, request >>
    /\ pc' = "raised"
    /\ error' = "TransportError"
    /\ stream' = AfterStep(stream, pc', error')
    /\ UNCHANGED << fixedVars, msgs, i, outcome, turns, atomicVars, streamVars >>
    /\ messages' = CallerSees(messages, msgs')

\* one fragment is read: its content and finish signal are yielded as chunks,
\* its tool-call deltas are folded into the buffer, a finish signal ends the turn
StreamFragment ==
    /\ mode = "stream" /\ pc = "reading" /\ Len(frags) < MaxFrags
    /\ \E f \in Fragments :
          /\ frags' = Append(frags, [turn |-> iteration, fragment |-> f])
          /\ IF ~f.has_choice
             THEN UNCHANGED << content_buffer, tool_calls_buffer, has_tool_calls,
                               chunks, chunk_turns, stream, pc >>
             ELSE /\ content_buffer' = IF Truthy(f.content)
                                       THEN content_buffer \o f.content
                                       ELSE content_buffer
                  /\ chunks' = chunks \o ChunksOf(f)
                  /\ chunk_turns' = chunk_turns \o [k \in 1..Len(ChunksOf(f)) |-> iteration]
                  /\ stream' = Cached(stream, ChunksOf(f))
                  /\ tool_calls_buffer' = ApplyDeltas(tool_calls_buffer, f.tool_calls)
                  /\ has_tool_calls' = (has_tool_calls \/ f.tool_calls # <<>>)
                  /\ pc' = IF Truthy(f.finish_reason) THEN "finished" ELSE "reading"
    /\ UNCHANGED << fixedVars, msgs, iteration, i, error, outcome, turns, atomicVars,
                    request >>
    /\ messages' = CallerSees(messages, msgs')

\* the turn's fragments are over (exhausted, or left at the finish signal):
\* the assistant message is appended and the turn starts its tool calls or
\* the generator ends
StreamTurnEnds ==
    /\ mode = "stream" /\ pc \in {"reading", "finished"}
    /\ msgs' = AppendAssistant(msgs, content_buffer)
    /\ turns' = Append(turns, Turn(content_buffer, tool_calls_buffer))
    /\ IF has_tool_calls /\ HasToolCalls(tool_calls_buffer)
       THEN pc' = "tools" /\ i' = 1
       ELSE pc' = "done" /\ i' = i
    /\ stream' = AfterStep(stream, pc', error)
    /\ UNCHANGED << fixedVars, iteration, error, outcome, atomicVars, streamVars, request >>
    /\ messages' = CallerSees(messages, msgs')

StreamToolCall ==
    /\ mode = "stream" /\ pc = "tools"
    /\ ToolCallStep(tool_calls_buffer)
    /\ stream' = AfterStep(stream, pc', error')
    /\ UNCHANGED << fixedVars, iteration, outcome, turns, atomicVars, streamVars, request >>
    /\ messages' = CallerSees(messages, msgs')

StreamToolResult ==
    /\ mode = "stream" /\ pc = "invoked"
    /\ ToolResultStep(tool_calls_buffer)
    /\ stream' = AfterStep(stream, pc', error')
    /\ UNCHANGED << fixedVars, iteration, turns, atomicVars, streamVars, request >>
    /\ messages' = CallerSees(messages, msgs')

Next ==
    \/ SyncRequest
    \/ SyncRequestFails
    \/ SyncSkipToolCall
    \/ SyncToolCall
    \/ SyncToolResult
    \/ StreamRequest
    \/ StreamTransportFails
    \/ StreamFragment
    \/ StreamTurnEnds
    \/ StreamToolCall
    \/ StreamToolResult
    \/ ToolRuns

Spec == Init /\ [][Next]_vars

(***************************************************************************)
(* An AsyncStream over a producer of its own, iterated several times;      *)
(* the iterations are coroutines and may interleave.                       *)
(***************************************************************************)
\* no completion call is under way
EngineIdle ==
    /\ mode = "stream"
    /\ messages \in CallerMessages
    /\ msgs = messages
    /\ pc = "request"
    /\ iteration = 0
    /\ choice = NoChoice
    /\ i = 0
    /\ result = NoResult
    /\ error = None
    /\ outcome = NoOutcome
    /\ content_buffer = ""
    /\ tool_calls_buffer = <<>>
    /\ has_tool_calls = FALSE
    /\ chunks = <<>>
    /\ turns = <<>>
    /\ frags = <<>>
    /\ chatcmpl_id = Unset
    /\ chunk_turns = <<>>
    /\ request = NoRequest

\* no AsyncStream over a producer of its own is in use
StreamIdle ==
    /\ stream = AsyncStream
    /\ source = NoSource
    /\ started = 0
    /\ cursor = 0
    /\ passes = <<>>
    /\ derived = NoDerived

StreamInit ==
    /\ EngineIdle
    /\ stream = AsyncStream
    /\ source \in Sources
    /\ started = 0
    /\ cursor = 0
    /\ passes = <<>>
    /\ derived = NoDerived
    /\ ComponentsIdle("")

\* a faulty __aiter__ that lets an iteration begun while the first one is
\* in progress read the producer too
BeginPassJoins ==
    /\ Len(passes) < MaxPasses
    /\ IF IsReplay(stream) /\ stream.completed
       THEN /\ passes' = Append(passes, Pass(FALSE, stream.completed))
            /\ UNCHANGED << stream, started >>
       ELSE /\ passes' = Append(passes, Pass(TRUE, stream.completed))
            /\ stream' = Cached(stream, <<>>)
            /\ started' = IF IsReplay(stream) THEN started ELSE started + 1
    /\ UNCHANGED << engineVars, derived, componentVars, source, cursor >>

\* an iteration begins: the first one marks the stream consumed and starts
\* the producer, every later one replays
BeginPass ==
    /\ Len(passes) < MaxPasses
    /\ IF IsReplay(stream)
       THEN /\ passes' = Append(passes, Pass(FALSE, stream.completed))
            /\ UNCHANGED << stream, started >>
       ELSE /\ passes' = Append(passes, Pass(TRUE, stream.completed))
            /\ stream' = Cached(stream, <<>>)
            /\ started' = started + 1
    /\ UNCHANGED << engineVars, derived, componentVars, source, cursor >>

\* the first pass takes an item from the producer, caches it and yields it
FirstPassItem ==
    \E p \in 1..Len(passes) :
        /\ passes[p].first /\ passes[p].state = "running"
        /\ cursor < Len(source.items)
        /\ LET item == Mapped(source.mapper, source.items[cursor + 1]) IN
              /\ stream' = Cached(stream, << item >>)
              /\ passes' = [passes EXCEPT ![p].seen = Append(@, item)]
        /\ cursor' = cursor + 1
        /\ UNCHANGED << engineVars, derived, componentVars, source, started >>

\* the producer ends: so does the first pass
FirstPassEnds ==
    \E p \in 1..Len(passes) :
        /\ passes[p].first /\ passes[p].state = "running"
        /\ cursor = Len(source.items) /\ ~source.raises
        /\ stream' = Exhausted(stream)
        /\ passes' = [passes EXCEPT ![p].state = "ended"]
        /\ UNCHANGED << engineVars, derived, componentVars, source, started, cursor >>

\* the producer raises: the error is recorded and raised to the first pass
FirstPassRaises ==
    \E p \in 1..Len(passes) :
        /\ passes[p].first /\ passes[p].state = "running"
        /\ cursor = Len(source.items) /\ source.raises
        /\ stream' = Failed(stream, "ProducerError")
        /\ passes' = [passes EXCEPT ![p].state = "raised"]
        /\ UNCHANGED << engineVars, derived, componentVars, source, started, cursor >>

\* a replay yields the next cached item
ReplayItem ==
    \E p \in 1..Len(passes) :
        /\ ~passes[p].first /\ passes[p].state = "running"
        /\ passes[p].pos < Len(stream.items)
        /\ passes' = [passes EXCEPT ![p].pos = @ + 1,
                                    ![p].seen = Append(@, stream.items[passes[p].pos + 1])]
        /\ UNCHANGED << engineVars, derived, componentVars, stream, source, started, cursor >>

\* a faulty replay that goes on with the producer after the cache
ReplayResumes ==
    \E p \in 1..Len(passes) :
        /\ ~passes[p].first /\ passes[p].state = "running"
        /\ passes[p].pos = Len(stream.items)
        /\ cursor < Len(source.items)
        /\ LET item == Mapped(source.mapper, source.items[cursor + 1]) IN
              /\ stream' = Cached(stream, << item >>)
              /\ passes' = [passes EXCEPT ![p].pos = @ + 1, ![p].seen = Append(@, item)]
        /\ cursor' = cursor + 1
        /\ UNCHANGED << engineVars, derived, componentVars, source, started >>

\* a replay has yielded the whole cache: it returns
ReplayEnds ==
    \E p \in 1..Len(passes) :
        /\ ~passes[p].first /\ passes[p].state = "running"
        /\ passes[p].pos = Len(stream.items)
        /\ passes' = [passes EXCEPT ![p].state = "ended"]
        /\ UNCHANGED << engineVars, derived, componentVars, stream, source, started, cursor >>

\* the consumer leaves an iteration after an item (break): the generator is
\* closed, and the finally clause of a first pass marks the stream completed
ClosePass ==
    \E p \in 1..Len(passes) :
        /\ passes[p].state = "running" /\ passes[p].seen # <<>>
        /\ passes' = [passes EXCEPT ![p].state = "closed"]
        /\ stream' = IF passes[p].first THEN [stream EXCEPT !.completed = TRUE]
                                        ELSE stream
        /\ UNCHANGED << engineVars, derived, componentVars, source, started, cursor >>

StreamNext ==
    \/ BeginPass
    \/ FirstPassItem
    \/ FirstPassEnds
    \/ FirstPassRaises
    \/ ReplayItem
    \/ ReplayEnds
    \/ ClosePass

StreamSpec == StreamInit /\ [][StreamNext]_vars

(***************************************************************************)
(* The combinators of AsyncStream (filter, tap, map, take, skip, chunk,    *)
(* take_while, enumerate): each returns a new AsyncStream over a generator *)
(* that iterates the stream it was composed on.                            *)
(***************************************************************************)
\* the combinators a caller may compose, with their arguments
Combinators ==
    [op : {"filter", "tap", "map", "take_while"}, arg : {0}]
    \cup [op : {"take", "skip"}, arg : {0, 1, 2}]
    \cup [op : {"chunk"}, arg : {1, 2, 3}]
    \cup [op : {"enumerate"}, arg : {0, 5}]

\* the predicate given to filter and take_while
Predicate(item) == item \in {1, 4}

\* the mapper given to map
Mapper(item) == item + 10

\* the locals of a combinator's generator before its first item
Locals(c) ==
    [count |-> IF c.op = "enumerate" THEN c.arg ELSE 0, batch |-> <<>>, tapped |-> <<>>]

\* one pass of the generator's loop body over an item: what it yields (out),
\* its locals afterwards, and whether it leaves the loop (break)
Body(c, l, item) ==
    CASE c.op = "filter" ->
           [out |-> IF Predicate(item) THEN << item >> ELSE <<>>, l |-> l, break |-> FALSE]
      [] c.op = "tap" ->
           [out |-> << item >>, l |-> [l EXCEPT !.tapped = Append(@, item)],
            break |-> FALSE]
      [] c.op = "map" ->
           [out |-> << Mapper(item) >>, l |-> l, break |-> FALSE]
      [] c.op = "take" ->
           IF l.count >= c.arg
           THEN [out |-> <<>>, l |-> l, break |-> TRUE]
           ELSE [out |-> << item >>, l |-> [l EXCEPT !.count = @ + 1], break |-> FALSE]
      [] c.op = "skip" ->
           IF l.count < c.arg
           THEN [out |-> <<>>, l |-> [l EXCEPT !.count = @ + 1], break |-> FALSE]
           ELSE [out |-> << item >>, l |-> l, break |-> FALSE]
      [] c.op = "chunk" ->
           IF Len(l.batch) + 1 >= c.arg
           THEN [out |-> << Append(l.batch, item) >>, l |-> [l EXCEPT !.batch = <<>>],
                 break |-> FALSE]
           ELSE [out |-> <<>>, l |-> [l EXCEPT !.batch = Append(@, item)],
                 break |-> FALSE]
      [] c.op = "take_while" ->
           IF ~Predicate(item)
           THEN [out |-> <<>>, l |-> l, break |-> TRUE]
           ELSE [out |-> << item >>, l |-> l, break |-> FALSE]
      [] c.op = "enumerate" ->
           [out |-> << << l.count, item >> >>, l |-> [l EXCEPT !.count = @ + 1],
            break |-> FALSE]

\* a faulty end of chunk's generator that drops the batch under way
FlushNothing(c, l) == <<>>

\* what the generator yields after its loop: chunk's batch under way, if any
Flush(c, l) == IF c.op = "chunk" /\ l.batch # <<>> THEN << l.batch >> ELSE <<>>

\* the locals of the derived stream's generator
LocalsOf(d) == [count |-> d.count, batch |-> d.batch, tapped |-> d.tapped]

\* a faulty combinator that starts to read the stream when it is composed
ComposeEager ==
    /\ derived.op = None
    /\ \E c \in Combinators :
          derived' = [NoDerived EXCEPT !.op = c.op, !.arg = c.arg,
                                       !.count = Locals(c).count,
                                       !.inner = [state |-> "running",
                                                  first |-> ~IsReplay(stream), pos |-> 0]]
    /\ stream' = Cached(stream, <<>>)
    /\ started' = IF IsReplay(stream) THEN started ELSE started + 1
    /\ UNCHANGED << engineVars, componentVars, source, cursor, passes >>

\* a combinator is called on the stream: the generator function is called,
\* which runs none of its body, and a new AsyncStream wraps the generator
Compose ==
    /\ derived.op = None
    /\ \E c \in Combinators :
          derived' = [NoDerived EXCEPT !.op = c.op, !.arg = c.arg,
                                       !.count = Locals(c).count]
    /\ UNCHANGED << engineVars, componentVars, stream, producerVars >>

\* the source is iterated directly, once
SourcePass == passes = <<>> /\ BeginPass

\* the derived stream is iterated for the first time: its generator starts
\* and begins an iteration of the stream it was composed on
DerivedBegin ==
    /\ derived.op # None /\ ~IsReplay(derived.s)
    /\ derived' = [derived EXCEPT !.s = Cached(@, <<>>),
                                  !.inner = [state |-> "running",
                                             first |-> ~IsReplay(stream), pos |-> 0]]
    /\ IF IsReplay(stream)
       THEN UNCHANGED << stream, started >>
       ELSE stream' = Cached(stream, <<>>) /\ started' = started + 1
    /\ UNCHANGED << engineVars, componentVars, source, cursor, passes >>

\* the generator takes the next item from the stream (from the producer in a
\* first pass, from the cache in a replay) and runs its loop body on it; when
\* the body breaks, the generator ends, and the abandoned first pass marks
\* the stream completed when it is finalized
DerivedItem ==
    /\ derived.inner.state = "running"
    /\ IF derived.inner.first THEN cursor < Len(source.items)
                              ELSE derived.inner.pos < Len(stream.items)
    /\ LET item == IF derived.inner.first
                   THEN Mapped(source.mapper, source.items[cursor + 1])
                   ELSE stream.items[derived.inner.pos + 1]
           b == Body(derived, LocalsOf(derived), item)
           taken == IF derived.inner.first THEN Cached(stream, << item >>) ELSE stream
       IN /\ derived' =
                [derived EXCEPT
                   !.pulled = Append(@, item),
                   !.count = b.l.count, !.batch = b.l.batch, !.tapped = b.l.tapped,
                   !.inner.pos = IF derived.inner.first THEN @ ELSE @ + 1,
                   !.inner.state = IF b.break THEN "closed" ELSE @,
                   !.s = IF b.break THEN Exhausted(@) ELSE Cached(@, b.out)]
          /\ stream' = IF b.break /\ derived.inner.first
                       THEN [taken EXCEPT !.completed = TRUE]
                       ELSE taken
    /\ cursor' = IF derived.inner.first THEN cursor + 1 ELSE cursor
    /\ UNCHANGED << engineVars, componentVars, source, started, passes >>

\* the stream has no more items: the generator leaves its loop, yields what
\* is left to yield and ends
DerivedEnds ==
    /\ derived.inner.state = "running"
    /\ IF derived.inner.first THEN cursor = Len(source.items) /\ ~source.raises
                              ELSE derived.inner.pos = Len(stream.items)
    /\ derived' = [derived EXCEPT
                      !.inner.state = "ended",
                      !.batch = <<>>,
                      !.s = Exhausted(Cached(@, Flush(derived, LocalsOf(derived))))]
    /\ stream' = IF derived.inner.first THEN Exhausted(stream) ELSE stream
    /\ UNCHANGED << engineVars, componentVars, source, started, cursor, passes >>

\* the producer raises while the generator reads it: the error passes
\* through the stream and through the derived stream
DerivedRaises ==
    /\ derived.inner.state = "running" /\ derived.inner.first
    /\ cursor = Len(source.items) /\ source.raises
    /\ derived' = [derived EXCEPT !.inner.state = "raised",
                                  !.s = Failed(@, "ProducerError")]
    /\ stream' = Failed(stream, "ProducerError")
    /\ UNCHANGED << engineVars, componentVars, source, started, cursor, passes >>

CombinatorNext ==
    \/ Compose
    \/ SourcePass
    \/ FirstPassItem
    \/ FirstPassEnds
    \/ FirstPassRaises
    \/ ReplayItem
    \/ ReplayEnds
    \/ ClosePass
    \/ DerivedBegin
    \/ DerivedItem
    \/ DerivedEnds
    \/ DerivedRaises

CombinatorSpec == StreamInit /\ [][CombinatorNext]_vars

(***************************************************************************)
(* The content of a ToolCalls entry, as each mode of the engine makes it   *)
(* of what the tool returned.                                              *)
(***************************************************************************)
\* the longest list a tool returns
MaxList == 2

\* what a tool may return: a text, a number, a bool, None, a dict, or a list
\* of such values and of lists
Scalars == { Str("Sunny"), Str(""), Int(15), Int(0 - 3), Float("1.5"), Bool(TRUE), NoneValue }
Elements ==
    Scalars \cup { Dict(<< << "temp", Int(15) >> >>), List(<< Str("a"), Int(1) >>) }
Results ==
    Elements \cup { Dict(<<>>) } \cup { List(items) : items \in SeqsUpTo(Elements, MaxList) }

\* the mode has not stored the result
NotStored == [stored |-> FALSE]

EncodingInit ==
    /\ EngineIdle /\ StreamIdle /\ ComponentsIdle("encoding")
    /\ encoding \in [result : Results, atomic : {NotStored}, stream : {NotStored}]

\* _sync_complete stores the result of the tool call
SyncStore ==
    /\ encoding.atomic = NotStored
    /\ encoding' = [encoding EXCEPT !.atomic = ToolCalls("call_1", ResultStr(encoding.result))]
    /\ UNCHANGED << engineVars, stream, producerVars, derived,
                    schema, pipeline, resource, singleton, orch, cache >>

\* _stream_complete stores the result of the tool call
StreamStore ==
    /\ encoding.stream = NotStored
    /\ encoding' = [encoding EXCEPT
                      !.stream = ToolCalls("call_1", StreamResultStr(encoding.result))]
    /\ UNCHANGED << engineVars, stream, producerVars, derived,
                    schema, pipeline, resource, singleton, orch, cache >>

EncodingNext ==
    \/ SyncStore
    \/ StreamStore

EncodingSpec == EncodingInit /\ [][EncodingNext]_vars

(***************************************************************************)
(* The schema of a tool parameter (tools/__init__.py), derived from the    *)
(* parameter's annotation and its Property descriptor.                     *)
(***************************************************************************)
\* the most values a Literal annotation lists
MaxLiterals == 2

\* the values a Literal annotation may list
LiteralValues ==
    { Str("celsius"), Str("fahrenheit"), Int(1), Int(2), Float("1.5"), Float("2.5"),
      Bool(TRUE), Bool(FALSE) }

\* typing.Literal[...]: its arguments are distinct and at least one
Literal(args) == [origin |-> "Literal", args |-> args]
Literals ==
    { Literal(args) : args \in
        { a \in SeqsUpTo(LiteralValues, MaxLiterals) :
            a # <<>> /\ \A j, k \in 1..Len(a) : j # k => a[j] # a[k] } }

\* a plain type used as annotation
Plain(python_type) == [origin |-> None, type |-> python_type]
Annotations == Literals \cup { Plain(ty) : ty \in {"str", "int", "float", "bool", "bytes"} }

\* the Property descriptor of the parameter: none, or one with its enums
NoProperty == [absent |-> TRUE]
Property(enums) == [enums |-> enums]
\* an enum list, and None in its place
Enums(values) == [values |-> values]
NoEnums == [none |-> TRUE]
Properties ==
    { NoProperty, Property(NoEnums), Property(Enums(<<>>)),
      Property(Enums(<< Str("kelvin") >>)) }

\* isinstance(value, str), isinstance(value, int) (a bool is an int),
\* isinstance(value, float), isinstance(value, bool)
IsInstance(value, python_type) ==
    CASE python_type = "str" -> Is("str", value)
      [] python_type = "int" -> Is("int", value) \/ Is("bool", value)
      [] python_type = "float" -> Is("float", value)
      [] python_type = "bool" -> Is("bool", value)

\* _get_json_schema_type, of a Literal and of a plain type
_get_json_schema_type(python_type) ==
    IF python_type.origin = "Literal"
    THEN LET first_arg == python_type.args[1] IN
         IF IsInstance(first_arg, "str") THEN "string"
         ELSE IF IsInstance(first_arg, "int") THEN "integer"
         ELSE IF IsInstance(first_arg, "float") THEN "number"
         ELSE IF IsInstance(first_arg, "bool") THEN "boolean"
         ELSE "string"
    ELSE CASE python_type.type = "str" -> "string"
           [] python_type.type = "int" -> "integer"
           [] python_type.type = "float" -> "number"
           [] python_type.type = "bool" -> "boolean"
           [] OTHER -> "string"

\* _get_literal_enum_values
_get_literal_enum_values(python_type) ==
    IF python_type.origin = "Literal" THEN Enums(python_type.args) ELSE NoEnums

\* `prop_desc and prop_desc.enums`: there is a descriptor and its enums is
\* neither None nor empty
HasEnums(prop_desc) ==
    prop_desc # NoProperty /\ prop_desc.enums # NoEnums /\ prop_desc.enums # Enums(<<>>)

\* the PropertySchema BaseTool.schema builds for the parameter
PropertySchema(actual_type, prop_desc) ==
    [type |-> _get_json_schema_type(actual_type),
     enum |-> IF HasEnums(prop_desc) THEN prop_desc.enums
              ELSE _get_literal_enum_values(actual_type)]

\* no schema has been derived
NotDerived == [derived |-> FALSE]

SchemaInit ==
    /\ EngineIdle /\ StreamIdle /\ ComponentsIdle("schema")
    /\ schema \in [actual_type : Annotations, prop_desc : Properties,
                   property : {NotDerived}]

\* BaseTool.schema derives the schema of the parameter
DeriveSchema ==
    /\ schema.property = NotDerived
    /\ schema' = [schema EXCEPT
                    !.property = PropertySchema(schema.actual_type, schema.prop_desc)]
    /\ UNCHANGED << engineVars, stream, producerVars, derived,
                    encoding, pipeline, resource, singleton, orch, cache >>

SchemaNext ==
    \/ DeriveSchema

SchemaSpec == SchemaInit /\ [][SchemaNext]_vars

(***************************************************************************)
(* The way of a conversation through Core.complete (core.py): the caller's *)
(* Messages, the context pipeline (context/__init__.py), the ledger handed *)
(* to the completion engine.  A message is modelled by its role.           *)
(***************************************************************************)
\* the longest conversation, and how often context systems rewrite it
MaxMessages == 4
MaxRewrites == 3

Roles == {"system", "user", "assistant"}
Conversations == SeqsUpTo(Roles, MaxMessages)

\* Messages._validate(allow_system=False, first_role="user", last_role="user")
\* of types/message.py raises nothing
RawValid(roles) ==
    /\ roles # <<>>
    /\ roles[1] \in {"user", "assistant"} /\ roles[1] = "user"
    /\ \A k \in 2..Len(roles) :
          roles[k] \in {"user", "assistant"} /\ roles[k - 1] # roles[k]
    /\ roles[Len(roles)] = "user"

\* Messages.validate_messages of types/compat/message.py raises nothing
validate_messages(roles) ==
    /\ roles # <<>>
    /\ roles[1] = "system"
    /\ \A k \in 2..Len(roles) :
          /\ roles[k] # "system"
          /\ roles[k] \in {"user", "assistant"}
          /\ roles[k - 1] # roles[k]
    /\ roles[Len(roles)] = "user"

\* Messages.from_raws: model_construct runs no validator
from_raws(raws, sys_prompt) == << "system" >> \o raws

\* nothing has been constructed: stage tells how far the call is, context is
\* Context.messages, ledger the compat Messages, by tells who constructed
\* it, requests counts the provider requests sent for it
NoPipeline ==
    [stage |-> "start", context |-> <<>>, rewrites |-> 0, ledger |-> <<>>,
     by |-> None, requests |-> 0, error |-> None]

PipelineInit ==
    /\ EngineIdle /\ StreamIdle /\ ComponentsIdle("pipeline")
    /\ pipeline = NoPipeline

\* the caller constructs the Messages passed to Core.complete: the model
\* validator rejects a sequence that is not a conversation
ConstructMessages ==
    /\ pipeline.stage = "start"
    /\ \E roles \in Conversations :
          pipeline' = IF RawValid(roles)
                      THEN [pipeline EXCEPT !.stage = "context", !.context = roles]
                      ELSE [pipeline EXCEPT !.stage = "rejected",
                                            !.error = "ValidationError"]
    /\ UNCHANGED << engineVars, stream, producerVars, derived,
                    encoding, schema, resource, singleton, orch, cache >>

\* a context system's preprocess or postprocess returns a context with
\* other messages: one more, or one fewer
SystemRewrites ==
    /\ pipeline.stage = "context" /\ pipeline.rewrites < MaxRewrites
    /\ \E roles \in Conversations :
          /\ \/ Len(roles) = Len(pipeline.context) + 1
                /\ SubSeq(roles, 1, Len(pipeline.context)) = pipeline.context
             \/ Len(roles) + 1 = Len(pipeline.context)
                /\ SubSeq(pipeline.context, 1, Len(roles)) = roles
          /\ pipeline' = [pipeline EXCEPT !.context = roles, !.rewrites = @ + 1]
    /\ UNCHANGED << engineVars, stream, producerVars, derived,
                    encoding, schema, resource, singleton, orch, cache >>

\* ContextCompose.build_final assembles the ledger with from_raws
build_final ==
    /\ pipeline.stage = "context"
    /\ pipeline' = [pipeline EXCEPT !.stage = "ledger", !.by = "from_raws",
                                    !.ledger = from_raws(pipeline.context, "prompt")]
    /\ UNCHANGED << engineVars, stream, producerVars, derived,
                    encoding, schema, resource, singleton, orch, cache >>

\* a caller of the completion engine constructs the ledger itself,
\* Messages(messages=...): the model validator runs
ConstructLedger ==
    /\ pipeline.stage = "start"
    /\ \E roles \in Conversations :
          pipeline' = IF validate_messages(roles)
                      THEN [pipeline EXCEPT !.stage = "ledger", !.by = "constructor",
                                            !.ledger = roles]
                      ELSE [pipeline EXCEPT !.stage = "rejected",
                                            !.error = "ValidationError"]
    /\ UNCHANGED << engineVars, stream, producerVars, derived,
                    encoding, schema, resource, singleton, orch, cache >>

\* the completion engine sends the ledger to the provider
SendRequest ==
    /\ pipeline.stage = "ledger"
    /\ pipeline' = [pipeline EXCEPT !.stage = "requested", !.requests = @ + 1]
    /\ UNCHANGED << engineVars, stream, producerVars, derived,
                    encoding, schema, resource, singleton, orch, cache >>

PipelineNext ==
    \/ ConstructMessages
    \/ SystemRewrites
    \/ build_final
    \/ ConstructLedger
    \/ SendRequest

PipelineSpec == PipelineInit /\ [][PipelineNext]_vars

(***************************************************************************)
(* A file resource (resources/__init__.py, resource/__init__.py): load     *)
(* parses the file into data; a watched resource loads again whenever the  *)
(* file is modified.                                                       *)
(***************************************************************************)
\* how many times a resource is loaded after its construction
MaxLoads == 4

\* what the file may hold: a content _parse accepts, or one it raises on
Parsable == {"v1", "v2", "v3"}
Broken == "<broken>"
FileContents == Parsable \cup {Broken}

\* Resource.load: the file parses and the data in use becomes the backup,
\* or _parse raises and the backup, if there is one, becomes the data
load(r) ==
    IF r.file # Broken
    THEN [r EXCEPT !.backup = r.data, !.data = r.file,
                   !.last = "loaded", !.loads = @ + 1]
    ELSE [r EXCEPT !.data = IF r.backup # None THEN r.backup ELSE r.data,
                   !.last = "failed", !.loads = @ + 1]

\* Resource.__init__ up to its call of load
NewResource(file) ==
    [file |-> file, data |-> None, backup |-> None, last |-> None, loads |-> 0]

\* Resource.__init__: the resource is constructed on a file and loads it
ResourceInit ==
    /\ EngineIdle /\ StreamIdle /\ ComponentsIdle("resource")
    /\ \E file \in FileContents : resource = [load(NewResource(file)) EXCEPT !.loads = 0]

\* the file is modified
FileModified ==
    /\ \E file \in FileContents \ {resource.file} :
          resource' = [resource EXCEPT !.file = file]
    /\ UNCHANGED << engineVars, stream, producerVars, derived,
                    encoding, schema, pipeline, singleton, orch, cache >>

\* load is called again, by the file watcher or by the owner
Reload ==
    /\ resource.loads < MaxLoads
    /\ resource' = load(resource)
    /\ UNCHANGED << engineVars, stream, producerVars, derived,
                    encoding, schema, pipeline, singleton, orch, cache >>

ResourceNext ==
    \/ FileModified
    \/ Reload

ResourceSpec == ResourceInit /\ [][ResourceNext]_vars

(***************************************************************************)
(* The singleton decorator (utils.py): get_instance, called by several     *)
(* threads and, nested, by the constructor of the decorated class.         *)
(***************************************************************************)
\* how many calls a thread makes
MaxGets == 2

Threads == {"t1", "t2"}

\* a call of get_instance at its first line; obj is the instance its
\* cls(...) makes, 0 before; nested tells that its constructor has made its
\* nested call
Frame == [pc |-> "check", obj |-> 0, nested |-> FALSE]

\* the decorator has been applied: instances is instances.get(cls), 0 when
\* cls is not in it; owner and count are the RLock; constructed counts the
\* runs of the constructor; stack holds each thread's calls under way,
\* returned what each call returned, gets how many calls the thread began
NewSingleton(nests) ==
    [nests |-> nests, instances |-> 0, owner |-> None, count |-> 0, constructed |-> 0,
     stack |-> [t \in Threads |-> <<>>],
     returned |-> [t \in Threads |-> <<>>],
     gets |-> [t \in Threads |-> 0]]

\* the class is one whose constructor calls get_instance, or one that does not
SingletonInit ==
    /\ EngineIdle /\ StreamIdle /\ ComponentsIdle("singleton")
    /\ \E nests \in BOOLEAN : singleton = NewSingleton(nests)

\* the call on top of the thread's stack
Top(t) == Last(singleton.stack[t])

\* the singleton with the top call of thread t at new_pc
AtPc(s, t, new_pc) == [s EXCEPT !.stack[t][Len(s.stack[t])].pc = new_pc]

\* a thread calls get_instance
Get(t) ==
    /\ singleton.stack[t] = <<>> /\ singleton.gets[t] < MaxGets
    /\ singleton' = [singleton EXCEPT !.stack[t] = << Frame >>, !.gets[t] = @ + 1]
    /\ UNCHANGED << engineVars, stream, producerVars, derived,
                    encoding, schema, pipeline, resource, orch, cache >>

\* `if cls not in instances:` outside the lock
FirstCheck(t) ==
    /\ singleton.stack[t] # <<>> /\ Top(t).pc = "check"
    /\ singleton' = AtPc(singleton, t, IF singleton.instances = 0 THEN "lock" ELSE "return")
    /\ UNCHANGED << engineVars, stream, producerVars, derived,
                    encoding, schema, pipeline, resource, orch, cache >>

\* `with lock:` the reentrant lock is free or held by this thread
Acquire(t) ==
    /\ singleton.stack[t] # <<>> /\ Top(t).pc = "lock"
    /\ singleton.owner \in {None, t}
    /\ singleton' = [AtPc(singleton, t, "check2") EXCEPT !.owner = t, !.count = @ + 1]
    /\ UNCHANGED << engineVars, stream, producerVars, derived,
                    encoding, schema, pipeline, resource, orch, cache >>

\* `if cls not in instances:` under the lock; cls(...) starts the constructor
SecondCheck(t) ==
    /\ singleton.stack[t] # <<>> /\ Top(t).pc = "check2"
    /\ singleton' =
          IF singleton.instances = 0
          THEN [AtPc(singleton, t, "construct") EXCEPT
                   !.constructed = @ + 1,
                   !.stack[t][Len(singleton.stack[t])].obj = singleton.constructed + 1]
          ELSE AtPc(singleton, t, "release")
    /\ UNCHANGED << engineVars, stream, producerVars, derived,
                    encoding, schema, pipeline, resource, orch, cache >>

\* the constructor calls get_instance
NestedGet(t) ==
    /\ singleton.stack[t] # <<>> /\ Top(t).pc = "construct"
    /\ singleton.nests /\ Len(singleton.stack[t]) = 1 /\ ~Top(t).nested
    /\ singleton' = [singleton EXCEPT
                       !.stack[t] = << [Top(t) EXCEPT !.nested = TRUE], Frame >>]
    /\ UNCHANGED << engineVars, stream, producerVars, derived,
                    encoding, schema, pipeline, resource, orch, cache >>

\* the constructor returns: `instances[cls] = cls(*args, **kwargs)`
Store(t) ==
    /\ singleton.stack[t] # <<>> /\ Top(t).pc = "construct"
    /\ singleton.nests /\ Len(singleton.stack[t]) = 1 => Top(t).nested
    /\ singleton' = [AtPc(singleton, t, "release") EXCEPT !.instances = Top(t).obj]
    /\ UNCHANGED << engineVars, stream, producerVars, derived,
                    encoding, schema, pipeline, resource, orch, cache >>

\* the with block is left: the lock is released once
Release(t) ==
    /\ singleton.stack[t] # <<>> /\ Top(t).pc = "release"
    /\ singleton' = [AtPc(singleton, t, "return") EXCEPT
                       !.count = @ - 1,
                       !.owner = IF singleton.count = 1 THEN None ELSE @]
    /\ UNCHANGED << engineVars, stream, producerVars, derived,
                    encoding, schema, pipeline, resource, orch, cache >>

\* `return instances[cls]`
Return(t) ==
    /\ singleton.stack[t] # <<>> /\ Top(t).pc = "return"
    /\ singleton' = [singleton EXCEPT
                       !.stack[t] = SubSeq(@, 1, Len(@) - 1),
                       !.returned[t] = Append(@, singleton.instances)]
    /\ UNCHANGED << engineVars, stream, producerVars, derived,
                    encoding, schema, pipeline, resource, orch, cache >>

SingletonNext ==
    \/ \E t \in Threads : Get(t)
    \/ \E t \in Threads : FirstCheck(t)
    \/ \E t \in Threads : Acquire(t)
    \/ \E t \in Threads : SecondCheck(t)
    \/ \E t \in Threads : NestedGet(t)
    \/ \E t \in Threads : Store(t)
    \/ \E t \in Threads : Release(t)
    \/ \E t \in Threads : Return(t)

SingletonSpec == SingletonInit /\ [][SingletonNext]_vars

(***************************************************************************)
(* Orch (orch.py): the registry of personas by id.                         *)
(***************************************************************************)
\* the ids of the persona classes, and their instances: two instances of
\* one class have the same id
PersonaIds == {"assistant@default", "assistant@s2s", "coach@default"}
Personas == [id : PersonaIds, instance : {1, 2}]
\* no persona is an argument of the call
NoPersona == [id |-> None, instance |-> 0]

\* the dict with the key set to the value, and with the key deleted
SetItem(dict, key, value) ==
    [k \in DOMAIN dict \cup {key} |-> IF k = key THEN value ELSE dict[k]]
DelItem(dict, key) == [k \in DOMAIN dict \ {key} |-> dict[k]]

\* what a call leaves: the registry and the exception it raised, if any
Left(ins, raised) == [ins |-> ins, raised |-> raised]

\* a faulty register that replaces a persona registered under the id
registerOverwrites(ins, persona) == Left(SetItem(ins, persona.id, persona), None)

\* Orch.register
register(ins, persona) ==
    IF persona.id \in DOMAIN ins
    THEN Left(ins, "ValueError")
    ELSE Left(SetItem(ins, persona.id, persona), None)

\* Orch.unregister
unregister(ins, persona_id) ==
    IF persona_id \notin DOMAIN ins
    THEN Left(ins, "KeyError")
    ELSE Left(DelItem(ins, persona_id), None)

\* Orch.__setitem__
__setitem__(ins, key, value) ==
    IF key # value.id THEN Left(ins, "ValueError") ELSE register(ins, value)

\* Orch.__delitem__
__delitem__(ins, key) == unregister(ins, key)

\* the Orch after a call: _ins is the registry, the rest records the call,
\* its arguments, what it raised and the registry it found
Called(op, key, persona, left) ==
    [_ins |-> left.ins, op |-> op, key |-> key, persona |-> persona,
     raised |-> left.raised, before |-> orch._ins]

\* Orch.__init__
OrchInit ==
    /\ EngineIdle /\ StreamIdle /\ ComponentsIdle("orch")
    /\ orch = [_ins |-> << >>, op |-> None, key |-> None,
               persona |-> NoPersona,
               raised |-> None, before |-> << >>]

Register ==
    /\ \E persona \in Personas :
          orch' = Called("register", persona.id, persona, register(orch._ins, persona))
    /\ UNCHANGED << engineVars, stream, producerVars, derived,
                    encoding, schema, pipeline, resource, singleton, cache >>

Unregister ==
    /\ \E persona_id \in PersonaIds :
          orch' = Called("unregister", persona_id, NoPersona,
                         unregister(orch._ins, persona_id))
    /\ UNCHANGED << engineVars, stream, producerVars, derived,
                    encoding, schema, pipeline, resource, singleton, cache >>

AssignItem ==
    /\ \E key \in PersonaIds, value \in Personas :
          orch' = Called("__setitem__", key, value, __setitem__(orch._ins, key, value))
    /\ UNCHANGED << engineVars, stream, producerVars, derived,
                    encoding, schema, pipeline, resource, singleton, cache >>

DeleteItem ==
    /\ \E key \in PersonaIds :
          orch' = Called("__delitem__", key, NoPersona,
                         __delitem__(orch._ins, key))
    /\ UNCHANGED << engineVars, stream, producerVars, derived,
                    encoding, schema, pipeline, resource, singleton, cache >>

OrchNext ==
    \/ Register
    \/ Unregister
    \/ AssignItem
    \/ DeleteItem

OrchSpec == OrchInit /\ [][OrchNext]_vars

(***************************************************************************)
(* CachetoolsKVCache (cache/cachetools.py): an LRUCache of values and a    *)
(* dict of expiry times, read against the clock.  The cache is larger than *)
(* the number of keys in use, so the LRUCache evicts nothing.              *)
(***************************************************************************)
\* how far the clock runs, and the largest counter incr makes
MaxClock == 3
MaxCount == 2

CacheKeys == {"a", "b"}
CacheValues == { Str("v"), Int(0) }

\* a TTL in seconds, and None in its place
Ttl(seconds) == [ttl |-> seconds]
NoTtl == [none |-> TRUE]
Ttls == { NoTtl, Ttl(1), Ttl(2) }

\* an expiry time, and None in its place
At(time) == [at |-> time]
Never == [never |-> TRUE]

\* `time.time() + ttl` if ttl is not None, else None
ExpiryOf(ttl, now) == IF ttl = NoTtl THEN Never ELSE At(now + ttl.ttl)

\* the LRUCache as the sequence of its items, least recently used first
InCache(c, key) == \E k \in 1..Len(c.lru) : c.lru[k].key = key
ValueOf(c, key) == c.lru[CHOOSE k \in 1..Len(c.lru) : c.lru[k].key = key].value
Without(lru, key) == SelectSeq(lru, LAMBDA e : e.key # key)
Put(lru, key, value) == Append(Without(lru, key), [key |-> key, value |-> value])

\* CachetoolsKVCache.__init__
NewCache == [lru |-> <<>>, expiry |-> << >>]

\* CachetoolsKVCache._is_expired
_is_expired(c, key, now) ==
    /\ key \in DOMAIN c.expiry
    /\ c.expiry[key] # Never
    /\ now > c.expiry[key].at

\* the cache after _cleanup_expired_key, which returns _is_expired
_cleanup_expired_key(c, key, now) ==
    IF _is_expired(c, key, now)
    THEN [lru |-> Without(c.lru, key), expiry |-> DelItem(c.expiry, key)]
    ELSE c

\* the cache after the cleanup of every expired key, of __iter__ and __len__
Cleaned(c, now) ==
    LET expired == { key \in CacheKeys : InCache(c, key) /\ _is_expired(c, key, now) }
    IN [lru |-> SelectSeq(c.lru, LAMBDA e : e.key \notin expired),
        expiry |-> [key \in DOMAIN c.expiry \ expired |-> c.expiry[key]]]

\* what a call leaves: the cache, the exception raised if any, the value returned
Nothing == [nothing |-> TRUE]
Ok(c, out) == [c |-> c, raised |-> None, out |-> out]
Raise(c, exc) == [c |-> c, raised |-> exc, out |-> Nothing]

\* CachetoolsKVCache.__getitem__: the LRUCache's __getitem__ makes the key
\* the most recently used
kv_getitem(c, key, now) ==
    LET d == _cleanup_expired_key(c, key, now) IN
    IF _is_expired(c, key, now) \/ ~InCache(d, key) THEN Raise(d, "KeyError")
    ELSE Ok([d EXCEPT !.lru = Put(d.lru, key, ValueOf(d, key))], ValueOf(d, key))

\* CachetoolsKVCache.__setitem__ and set
kv_setitem(c, key, value, default_ttl, now) ==
    Ok([lru |-> Put(c.lru, key, value),
        expiry |-> SetItem(c.expiry, key, ExpiryOf(default_ttl, now))], Nothing)

\* CachetoolsKVCache.__delitem__
kv_delitem(c, key, now) ==
    LET d == _cleanup_expired_key(c, key, now) IN
    IF _is_expired(c, key, now) \/ ~InCache(d, key) THEN Raise(d, "KeyError")
    ELSE Ok([lru |-> Without(d.lru, key), expiry |-> DelItem(d.expiry, key)], Nothing)

\* CachetoolsKVCache.__iter__
kv_iter(c, now) ==
    LET d == Cleaned(c, now) IN
    Ok(d, [keys |-> { d.lru[k].key : k \in 1..Len(d.lru) }])

\* CachetoolsKVCache.__len__
kv_len(c, now) == LET d == Cleaned(c, now) IN Ok(d, Int(Len(d.lru)))

\* CachetoolsKVCache.__contains__
kv_contains(c, key, now) ==
    LET d == _cleanup_expired_key(c, key, now) IN
    IF _is_expired(c, key, now) THEN Ok(d, Bool(FALSE)) ELSE Ok(d, Bool(InCache(d, key)))

\* CachetoolsKVCache.get
kv_get(c, key, now) ==
    LET got == kv_getitem(c, key, now) IN
    IF got.raised = "KeyError" THEN Ok(got.c, NoneValue) ELSE got

\* CachetoolsKVCache.pop: a key absent from the LRUCache has lost its
\* expiry before the LRUCache raises
kv_pop(c, key, now) ==
    LET d == _cleanup_expired_key(c, key, now) IN
    IF _is_expired(c, key, now) THEN Raise(d, "KeyError")
    ELSE IF ~InCache(d, key) THEN Raise([d EXCEPT !.expiry = DelItem(@, key)], "KeyError")
    ELSE Ok([lru |-> Without(d.lru, key), expiry |-> DelItem(d.expiry, key)],
            ValueOf(d, key))

\* CachetoolsKVCache.popitem: the LRUCache gives up its least recently used item
kv_popitem(c, now) ==
    IF c.lru = <<>> THEN Raise(c, "KeyError")
    ELSE Ok([lru |-> Tail(c.lru), expiry |-> DelItem(c.expiry, Head(c.lru).key)],
            Head(c.lru))

\* CachetoolsKVCache.setx
kv_setx(c, key, value, ttl, now) ==
    Ok([lru |-> Put(c.lru, key, value),
        expiry |-> SetItem(c.expiry, key, ExpiryOf(ttl, now))], Nothing)

\* CachetoolsKVCache.ttl: max(0, int(expiry - time.time()))
kv_ttl(c, key, now) ==
    LET d == _cleanup_expired_key(c, key, now) IN
    IF _is_expired(c, key, now) \/ ~InCache(d, key) THEN Raise(d, "KeyError")
    ELSE IF key \notin DOMAIN d.expiry \/ d.expiry[key] = Never THEN Ok(d, NoneValue)
    ELSE Ok(d, Int(IF d.expiry[key].at > now THEN d.expiry[key].at - now ELSE 0))

\* CachetoolsKVCache.expire
kv_expire(c, key, ttl, now) ==
    LET d == _cleanup_expired_key(c, key, now) IN
    IF _is_expired(c, key, now) \/ ~InCache(d, key) THEN Raise(d, "KeyError")
    ELSE Ok([d EXCEPT !.expiry = SetItem(@, key, ExpiryOf(ttl, now))], Nothing)

\* CachetoolsKVCache.incr
kv_incr(c, key, amount, default_ttl, now) ==
    LET d == IF ~InCache(c, key) \/ _is_expired(c, key, now)
             THEN kv_setitem(IF InCache(c, key) THEN _cleanup_expired_key(c, key, now)
                             ELSE c,
                             key, Int(0), default_ttl, now).c
             ELSE c
        value == ValueOf(d, key)
    IN IF ~IsInstance(value, "int")
       THEN Raise([d EXCEPT !.lru = Put(d.lru, key, value)], "TypeError")
       ELSE Ok([d EXCEPT !.lru = Put(d.lru, key, Int(value.int + amount))],
               Int(value.int + amount))

\* no call has been made on the cache
NoCall ==
    [op |-> None, key |-> None, raised |-> None, out |-> Nothing,
     expired |-> FALSE, live |-> {}]

\* the keys in the cache whose TTL has not elapsed
Live(c, now) == { key \in CacheKeys : InCache(c, key) /\ ~_is_expired(c, key, now) }

\* the cache after a call on a key: expired tells whether the TTL of the key
\* had elapsed when the call was made, live the keys that were live
AfterCall(op, key, left) ==
    [cache EXCEPT
        !.c = left.c,
        !.last = [op |-> op, key |-> key, raised |-> left.raised, out |-> left.out,
                  expired |-> InCache(cache.c, key) /\ _is_expired(cache.c, key, cache.now),
                  live |-> Live(cache.c, cache.now)]]

\* CachetoolsKVCache(default_ttl=...)
CacheInit ==
    /\ EngineIdle /\ StreamIdle /\ ComponentsIdle("cache")
    /\ \E default_ttl \in { NoTtl, Ttl(1) } :
          cache = [c |-> NewCache, now |-> 0, default_ttl |-> default_ttl, last |-> NoCall]

CacheOnly ==
    UNCHANGED << engineVars, stream, producerVars, derived,
                 encoding, schema, pipeline, resource, singleton, orch >>

\* time passes
Tick ==
    /\ cache.now < MaxClock
    /\ cache' = [cache EXCEPT !.now = @ + 1]
    /\ CacheOnly

CacheSet ==
    /\ \E key \in CacheKeys, value \in CacheValues :
          cache' = AfterCall("set", key,
                             kv_setitem(cache.c, key, value, cache.default_ttl, cache.now))
    /\ CacheOnly

CacheSetx ==
    /\ \E key \in CacheKeys, value \in CacheValues, ttl \in Ttls :
          cache' = AfterCall("setx", key, kv_setx(cache.c, key, value, ttl, cache.now))
    /\ CacheOnly

CacheExpire ==
    /\ \E key \in CacheKeys, ttl \in Ttls :
          cache' = AfterCall("expire", key, kv_expire(cache.c, key, ttl, cache.now))
    /\ CacheOnly

CacheIncr ==
    /\ \E key \in CacheKeys :
          /\ InCache(cache.c, key) /\ Is("int", ValueOf(cache.c, key))
                => ValueOf(cache.c, key).int < MaxCount
          /\ cache' = AfterCall("incr", key,
                                kv_incr(cache.c, key, 1, cache.default_ttl, cache.now))
    /\ CacheOnly

CacheGetItem ==
    /\ \E key \in CacheKeys :
          cache' = AfterCall("getitem", key, kv_getitem(cache.c, key, cache.now))
    /\ CacheOnly

CacheGet ==
    /\ \E key \in CacheKeys :
          cache' = AfterCall("get", key, kv_get(cache.c, key, cache.now))
    /\ CacheOnly

CacheDelItem ==
    /\ \E key \in CacheKeys :
          cache' = AfterCall("delitem", key, kv_delitem(cache.c, key, cache.now))
    /\ CacheOnly

CachePop ==
    /\ \E key \in CacheKeys :
          cache' = AfterCall("pop", key, kv_pop(cache.c, key, cache.now))
    /\ CacheOnly

CacheTtl ==
    /\ \E key \in CacheKeys :
          cache' = AfterCall("ttl", key, kv_ttl(cache.c, key, cache.now))
    /\ CacheOnly

CacheContains ==
    /\ \E key \in CacheKeys :
          cache' = AfterCall("contains", key, kv_contains(cache.c, key, cache.now))
    /\ CacheOnly

CacheLen ==
    /\ cache' = AfterCall("len", None, kv_len(cache.c, cache.now))
    /\ CacheOnly

CacheIter ==
    /\ cache' = AfterCall("iter", None, kv_iter(cache.c, cache.now))
    /\ CacheOnly

\* popitem: the call is recorded with the key it returned
CachePopItem ==
    /\ LET left == kv_popitem(cache.c, cache.now) IN
          cache' = AfterCall("popitem",
                             IF left.raised = None THEN left.out.key ELSE None, left)
    /\ CacheOnly

CacheNext ==
    \/ Tick
    \/ CacheSet
    \/ CacheSetx
    \/ CacheExpire
    \/ CacheIncr
    \/ CacheGetItem
    \/ CacheGet
    \/ CacheDelItem
    \/ CachePop
    \/ CacheTtl
    \/ CacheContains
    \/ CacheLen
    \/ CacheIter
    \/ CachePopItem

CacheSpec == CacheInit /\ [][CacheNext]_vars

(***************************************************************************)
(* The AsyncStream that complete(stream=True) returns, iterated several    *)
(* times: _stream_gen is its source and runs only while the first          *)
(* iteration pulls from it.                                                *)
(***************************************************************************)
\* complete has returned the stream and nothing has iterated it
LazyInit ==
    /\ EngineIdle
    /\ StreamIdle
    /\ ComponentsIdle("")

\* the first iteration is waiting for the generator
Pulling == \E p \in 1..Len(passes) : passes[p].first /\ passes[p].state = "running"

LazyRequest == Pulling /\ StreamRequest

LazyTransportFails == Pulling /\ StreamTransportFails

\* the fragments the provider sends here: a text, a whole tool call, a
\* finish signal
LazyFragments ==
    { Fragment(TRUE, StreamContent, << >>, None),
      Fragment(TRUE, None, << Delta(0, "c1", Function("get_weather", GoodArgs)) >>, None),
      Fragment(TRUE, None, << >>, "stop") }

LazyFragment ==
    /\ Pulling
    /\ StreamFragment
    /\ Last(frags').fragment \in LazyFragments

LazyTurnEnds == Pulling /\ StreamTurnEnds

LazyToolCall == Pulling /\ StreamToolCall

LazyToolRuns == Pulling /\ ToolRuns

LazyToolResult == Pulling /\ StreamToolResult

\* the generator has ended or raised: so does the first iteration
LazyFirstPassOver ==
    \E p \in 1..Len(passes) :
        /\ passes[p].first /\ passes[p].state = "running"
        /\ pc \in {"done", "raised"}
        /\ passes' = [passes EXCEPT ![p].state = IF pc = "done" THEN "ended" ELSE "raised",
                                    ![p].seen = stream.items]
        /\ UNCHANGED << engineVars, stream, source, started, cursor, derived, componentVars >>

\* the consumer leaves the first iteration after a chunk (break): the
\* generator is left where it yielded and the finally clause of __aiter__
\* marks the stream completed
LazyBreak ==
    \E p \in 1..Len(passes) :
        /\ passes[p].first /\ passes[p].state = "running"
        /\ pc \in {"reading", "finished"} /\ stream.items # << >>
        /\ passes' = [passes EXCEPT ![p].state = "closed", ![p].seen = stream.items]
        /\ stream' = [stream EXCEPT !.completed = TRUE]
        /\ UNCHANGED << engineVars, source, started, cursor, derived, componentVars >>

LazyNext ==
    \/ BeginPass
    \/ ReplayItem
    \/ ReplayEnds
    \/ LazyRequest
    \/ LazyTransportFails
    \/ LazyFragment
    \/ LazyTurnEnds
    \/ LazyToolCall
    \/ LazyToolRuns
    \/ LazyToolResult
    \/ LazyFirstPassOver
    \/ LazyBreak

LazySpec == LazyInit /\ [][LazyNext]_vars

(***************************************************************************)
(* Vocabulary of the properties.                                           *)
(***************************************************************************)
IsParams(e) == e.type = "ToolCallsParams"
IsResult(e) == e.type = "ToolCalls"

\* s is a prefix of t
IsPrefix(s, t) == Len(s) <= Len(t) /\ SubSeq(t, 1, Len(s)) = s

\* the positions of the ledger that hold a ToolCallsParams, a ToolCalls
ParamsAt == { j \in 1..Len(msgs) : IsParams(msgs[j]) }
ResultsAt == { j \in 1..Len(msgs) : IsResult(msgs[j]) }

\* the tool calls of the turn being processed
CurrentCalls == IF mode = "atomic" THEN choice.tool_calls ELSE tool_calls_buffer

\* the next step processes a tool call the engine looks up by name
AtFunctionCall ==
    /\ pc = "tools"
    /\ mode = "atomic" => CurrentCalls[i].type = "function"

\* where the loop stands after the tool call at position i
AfterCurrentCall == IF i < Len(CurrentCalls) THEN "tools" ELSE "request"

\* the call completed: complete returned, or the stream's generator ended
Completed == pc \in {"returned", "done"}

\* function tool calls the provider has asked for over the turns so far
RECURSIVE FunctionCallsOf(_)
FunctionCallsOf(tcs) ==
    IF tcs = <<>> THEN 0
    ELSE (IF mode = "atomic" /\ Head(tcs).type # "function" THEN 0 ELSE 1)
         + FunctionCallsOf(Tail(tcs))

RECURSIVE FunctionCallsIn(_)
FunctionCallsIn(ts) ==
    IF ts = <<>> THEN 0
    ELSE FunctionCallsOf(Head(ts).tool_calls) + FunctionCallsIn(Tail(ts))

(***************************************************************************)
(* C1. Atomic complete returns after exactly k round trips, k the first    *)
(* turn without tool calls: no request follows a turn without tool calls,  *)
(* complete returns as soon as such a turn arrives and only then, and,     *)
(* with a provider that answers and tools that raise at most               *)
(* ToolCallError, nothing else ends the call.                              *)
(***************************************************************************)
C1_ReturnsAfterFirstPlainTurn ==
    mode = "atomic" =>
        /\ iteration >= Len(turns)
        /\ \A j \in 1..(Len(turns) - 1) : turns[j].tool_calls # <<>>
        /\ pc = "returned" <=> (turns # <<>> /\ Last(turns).tool_calls = <<>>)
        /\ pc = "returned" => iteration = Len(turns)
        /\ pc = "raised" => error \in {"TransportError", "Exception"}

(***************************************************************************)
(* C2. When atomic complete returns after k round trips, the ledger holds  *)
(* the initial entries, k assistant messages, and one entry per tool call  *)
(* of the turns before (the statement as the claim makes it).              *)
(***************************************************************************)
C2_LengthCountsEachPairOnce ==
    (mode = "atomic" /\ pc = "returned") =>
        Len(msgs) = Len(messages) + iteration + CallsIn(turns)

(***************************************************************************)
(* C2, amended. When atomic complete returns after k round trips, the      *)
(* ledger holds the initial entries, k assistant messages, and two entries *)
(* (ToolCallsParams and ToolCalls) per function tool call of the turns     *)
(* before; a tool call that is no function tool call adds nothing.         *)
(***************************************************************************)
C2_LedgerLength ==
    (mode = "atomic" /\ pc = "returned") =>
        Len(msgs) = Len(messages) + iteration + 2 * FunctionCallsIn(turns)

C2_Witness ==
    /\ mode = "atomic" /\ pc = "returned" /\ iteration = 3
    /\ FunctionCallsIn(turns) = 2
    /\ turns[1].content = None

(***************************************************************************)
(* C3. In every ledger state of either mode each ToolCalls entry is        *)
(* preceded by a ToolCallsParams entry with the same call_id; the request  *)
(* is in the ledger while its tool runs; and the ledger only grows at its  *)
(* end.                                                                    *)
(***************************************************************************)
C3_RequestPrecedesResult ==
    /\ \A j \in ResultsAt :
          \E h \in 1..(j - 1) : IsParams(msgs[h]) /\ msgs[h].call_id = msgs[j].call_id
    /\ pc \in {"invoking", "invoked"} =>
          /\ IsParams(Last(msgs))
          /\ Last(msgs).call_id = CurrentCalls[i].id

C3_ResultFollowsRequest ==
    [] C3_RequestPrecedesResult /\ [][IsPrefix(msgs, msgs')]_vars

C3_Witness ==
    /\ mode = "stream" /\ pc = "invoked"
    /\ Cardinality(ResultsAt) >= 1

(***************************************************************************)
(* C4. In a post-completion ledger no call_id appears in more than one     *)
(* ToolCallsParams, whatever the provider sends (the statement as the      *)
(* claim makes it).                                                        *)
(***************************************************************************)
NoDuplicateCallIds ==
    \A j, h \in ParamsAt : msgs[j].call_id = msgs[h].call_id => j = h

RECURSIVE IdsOf(_)
IdsOf(tcs) ==
    IF tcs = <<>> THEN <<>>
    ELSE (IF Head(tcs).type = "function" THEN << Head(tcs).id >> ELSE <<>>)
         \o IdsOf(Tail(tcs))

RECURSIVE AtomicIds(_)
AtomicIds(ts) ==
    IF ts = <<>> THEN <<>> ELSE IdsOf(Head(ts).tool_calls) \o AtomicIds(Tail(ts))

\* the tool-call deltas the provider sent in streamed turns, in arrival order
RECURSIVE DeltasOf(_, _)
DeltasOf(turn, ds) ==
    IF ds = <<>> THEN <<>>
    ELSE << [turn |-> turn, index |-> Head(ds).index, id |-> Head(ds).id] >>
         \o DeltasOf(turn, Tail(ds))

RECURSIVE StreamDeltas(_)
StreamDeltas(fs) ==
    IF fs = <<>> THEN <<>>
    ELSE DeltasOf(Head(fs).turn, Head(fs).fragment.tool_calls) \o StreamDeltas(Tail(fs))

\* the ids on the first delta of every index of every streamed turn
StreamIds ==
    LET ds == StreamDeltas(frags)
        first == { k \in 1..Len(ds) :
                     \A h \in 1..(k - 1) :
                        ds[h].turn # ds[k].turn \/ ds[h].index # ds[k].index }
        Opening == SelectSeq([k \in 1..Len(ds) |-> [at |-> k, id |-> ds[k].id]],
                             LAMBDA e : e.at \in first)
    IN [k \in 1..Len(Opening) |-> Opening[k].id]

\* the provider gave every tool call of the completion call an id of its own
ProviderIdsDistinct ==
    LET ids == IF mode = "atomic" THEN AtomicIds(turns) ELSE StreamIds IN
    /\ \A k \in 1..Len(ids) : Truthy(ids[k])
    /\ \A k, h \in 1..Len(ids) : ids[k] = ids[h] => k = h

C5_UnknownToolPlaceholder ==
    [][ (AtFunctionCall /\ CurrentCalls[i].function.name \notin ToolNames) =>
          LET tc == CurrentCalls[i] IN
          /\ msgs' = msgs \o
                << ToolCallsParams(tc.id, Function(tc.function.name, tc.function.arguments)),
                   ToolCalls(tc.id, "Tool " \o tc.function.name \o " not available") >>
          /\ error' = None
          /\ pc' = AfterCurrentCall
          /\ iteration' = iteration ]_vars

C5_Witness ==
    /\ mode = "stream" /\ pc = "reading" /\ iteration = 2
    /\ \E j \in ResultsAt :
          /\ msgs[j].content = "Tool lookup not available"
          /\ msgs[j - 1].function.arguments = BadArgs

(***************************************************************************)
(* C6. In both modes a tool invocation that raises ToolCallError does not  *)
(* abort the loop: the step appends a ToolCalls with the call's call_id    *)
(* and the content 'Error executing tool {name}', and the loop goes on: to *)
(* the turn's next tool call, or after the last one to the next request.   *)
(***************************************************************************)
C6_ToolErrorPlaceholder ==
    [][ (pc = "invoked" /\ outcome = Raised("ToolCallError")) =>
          LET tc == CurrentCalls[i] IN
          /\ msgs' = Append(msgs,
                ToolCalls(tc.id, "Error executing tool " \o tc.function.name))
          /\ error' = None
          /\ pc' = AfterCurrentCall
          /\ iteration' = iteration ]_vars

C6_Witness ==
    /\ mode = "atomic" /\ pc = "returned" /\ iteration = 2
    /\ \E j \in ResultsAt :
          /\ msgs[j].content = "Error executing tool get_weather"
          /\ j + 2 \in ResultsAt

(***************************************************************************)
(* C7. In both modes a tool call that names a tool of the tool set with an *)
(* arguments text that is no valid JSON does not end the call: the step    *)
(* leaves no error, and the engine appends a placeholder ToolCalls for the *)
(* call_id and goes on.                                                    *)
(***************************************************************************)
C7_MalformedArgumentsRecovered ==
    [][ (/\ AtFunctionCall
         /\ CurrentCalls[i].function.name \in ToolNames
         /\ CurrentCalls[i].function.arguments # GoodArgs) =>
          /\ error' = None
          /\ pc' # "raised"
          /\ IsResult(Last(msgs')) /\ Last(msgs').call_id = CurrentCalls[i].id ]_vars

(***************************************************************************)
(* C8. A tool invocation that raises anything but ToolCallError ends the   *)
(* call with that exception: no ToolCalls is appended for the call (its    *)
(* ToolCallsParams stays the last entry), and nothing happens afterwards,  *)
(* so no further request is sent.                                          *)
(***************************************************************************)
C8_OtherExceptionsPropagate ==
    /\ [][ (pc = "invoked" /\ outcome = Raised("Exception")) =>
             /\ pc' = "raised" /\ error' = "Exception"
             /\ msgs' = msgs /\ iteration' = iteration ]_vars
    /\ [][ pc = "raised" => UNCHANGED vars ]_vars
    /\ [] ((pc = "raised" /\ error = "Exception") =>
             /\ IsParams(Last(msgs))
             /\ Last(msgs).call_id = CurrentCalls[i].id)

C8_Witness ==
    /\ mode = "stream" /\ pc = "raised" /\ error = "Exception"
    /\ i = 2

(***************************************************************************)
(* C9. Atomic complete builds its Completion only from a turn without tool *)
(* calls, and the Completion's content is that turn's content, never that  *)
(* of an earlier turn.                                                     *)
(***************************************************************************)
C9_ResultIsFinalTurn ==
    mode = "atomic" =>
        /\ result # NoResult <=> pc = "returned"
        /\ result # NoResult =>
              /\ Last(turns).tool_calls = <<>>
              /\ result.content = Last(turns).content

C9_Witness ==
    /\ mode = "atomic" /\ pc = "returned" /\ Len(turns) = 2
    /\ \E k \in 1..Len(turns[1].tool_calls) :
          /\ turns[1].tool_calls[k].type = "function"
          /\ turns[1].tool_calls[k].function.name = "get_weather"
    /\ turns[1].content = None
    /\ result.content = "It's 15C and sunny."

(***************************************************************************)
(* C10. The finish_reason of the returned Completion and of every chunk    *)
(* that has one is stop, length or content_filter: the provider's stop,    *)
(* length and content_filter stay, tool_calls, function_call and a missing *)
(* reason become stop.                                                     *)
(***************************************************************************)
Standard(reason) ==
    CASE reason = "stop" -> "stop"
      [] reason = "length" -> "length"
      [] reason = "content_filter" -> "content_filter"
      [] reason = "tool_calls" -> "stop"
      [] reason = "function_call" -> "stop"
      [] reason = None -> "stop"

\* the finish reasons the chunks of the fragments so far are to carry, in order
RECURSIVE ExpectedReasons(_)
ExpectedReasons(fs) ==
    IF fs = <<>> THEN <<>>
    ELSE LET f == Head(fs).fragment
             r == Standard(f.finish_reason) IN
         (IF ~f.has_choice \/ f.finish_reason = None THEN <<>>
          ELSE IF f.content \in {None, ""} THEN << r >>
          ELSE << r, r >>)
         \o ExpectedReasons(Tail(fs))

RECURSIVE ReasonsOf(_)
ReasonsOf(cs) ==
    IF cs = <<>> THEN <<>>
    ELSE (IF Head(cs).finish_reason = None THEN <<>> ELSE << Head(cs).finish_reason >>)
         \o ReasonsOf(Tail(cs))

C10_FinishReasonStandard ==
    /\ result # NoResult =>
          /\ result.finish_reason \in {"stop", "length", "content_filter"}
          /\ result.finish_reason = Standard(choice.finish_reason)
    /\ \A k \in 1..Len(chunks) :
          chunks[k].finish_reason \in {None, "stop", "length", "content_filter"}
    /\ ReasonsOf(chunks) = ExpectedReasons(frags)

C10_Witness ==
    /\ mode = "stream"
    /\ ReasonsOf(chunks) = << "stop", "length" >>
    /\ frags[2].fragment.finish_reason = "function_call"

(***************************************************************************)
(* Vocabulary of the streaming properties.                                 *)
(***************************************************************************)
RECURSIVE Concat(_)
Concat(texts) == IF texts = <<>> THEN "" ELSE Head(texts) \o Concat(Tail(texts))

\* the texts of the assistant messages the call has appended, one per turn
RECURSIVE AssistantTextsOf(_)
AssistantTextsOf(ledger) ==
    IF ledger = <<>> THEN <<>>
    ELSE (IF Head(ledger).type = "Message" /\ Head(ledger).role = "assistant"
          THEN << Head(ledger).content >> ELSE <<>>)
         \o AssistantTextsOf(Tail(ledger))

AssistantTexts == AssistantTextsOf(SubSeq(msgs, Len(messages) + 1, Len(msgs)))

\* the chunks of turn t, in the order they were yielded
RECURSIVE ChunksFrom(_, _)
ChunksFrom(k, t) ==
    IF k > Len(chunks) THEN <<>>
    ELSE (IF chunk_turns[k] = t THEN << chunks[k] >> ELSE <<>>) \o ChunksFrom(k + 1, t)

ChunksOfTurn(t) == ChunksFrom(1, t)

\* the texts the chunks cs carry
RECURSIVE ContentsOf(_)
ContentsOf(cs) ==
    IF cs = <<>> THEN <<>>
    ELSE (IF Head(cs).delta.content = None THEN <<>> ELSE << Head(cs).delta.content >>)
         \o ContentsOf(Tail(cs))

\* the step reads a fragment; the fragment it reads
ReadsFragment == Len(frags') = Len(frags) + 1
FragmentRead == frags'[Len(frags')].fragment

(***************************************************************************)
(* C11. In streaming mode every fragment with non-empty content yields,    *)
(* in the step that reads it and so before the next fragment is read, one  *)
(* chunk whose delta.content is the fragment's own text and not the text   *)
(* buffered so far; chunks are only ever added at the end, in the order    *)
(* the fragments arrive; so for every turn the concatenation of its        *)
(* chunks' contents is the assistant text appended to the ledger for it.   *)
(***************************************************************************)
C11_TurnTextIsItsChunks ==
    \A t \in 1..Len(AssistantTexts) :
        mode = "stream" => Concat(ContentsOf(ChunksOfTurn(t))) = AssistantTexts[t]

C11_FragmentYieldsItsText ==
    /\ IsPrefix(chunks, chunks')
    /\ (ReadsFragment /\ FragmentRead.has_choice /\ Truthy(FragmentRead.content)) =>
          /\ Len(chunks') > Len(chunks)
          /\ chunks'[Len(chunks) + 1].delta.content = FragmentRead.content
          /\ \A k \in (Len(chunks) + 2)..Len(chunks') : chunks'[k].delta.content = None
    /\ (ReadsFragment /\ ~(FragmentRead.has_choice /\ Truthy(FragmentRead.content))) =>
          \A k \in (Len(chunks) + 1)..Len(chunks') : chunks'[k].delta.content = None

C11_ContentChunkPerFragment ==
    [] C11_TurnTextIsItsChunks /\ [][C11_FragmentYieldsItsText]_vars

C11_Witness ==
    /\ mode = "stream"
    /\ Len(AssistantTexts) = 1
    /\ AssistantTexts[1] = StreamContent \o StreamContent
    /\ ContentsOf(ChunksOfTurn(1)) = << StreamContent, StreamContent >>

(***************************************************************************)
(* C12. Within a stream, finish_reason is null on every chunk except the   *)
(* terminating chunk of each model turn: each turn yields at most one      *)
(* chunk with a non-null finish_reason, that chunk has an empty delta, and *)
(* it is the last chunk of its turn.                                       *)
(***************************************************************************)
FinishChunksAt(cs) == { k \in 1..Len(cs) : cs[k].finish_reason # None }

C12_OneFinishChunkPerTurn ==
    \A t \in 1..iteration :
        LET cs == ChunksOfTurn(t) IN
        /\ Cardinality(FinishChunksAt(cs)) <= 1
        /\ \A k \in FinishChunksAt(cs) :
              /\ cs[k].delta = CompletionChunkDelta(None)
              /\ k = Len(cs)

(***************************************************************************)
(* C13. In a stream returned by complete with stream=True, finish_reason   *)
(* is None on all intermediate chunks and set only on the final chunk of   *)
(* the stream, also when the stream spans several tool-calling turns: no   *)
(* chunk follows a chunk with a non-null finish_reason, so a consumer that *)
(* stops at the first one has seen the whole response.                     *)
(***************************************************************************)
C13_FinishOnlyOnFinalChunk ==
    \A k \in 1..Len(chunks) : chunks[k].finish_reason # None => k = Len(chunks)

(***************************************************************************)
(* C14. All chunks of one stream carry the same id, also when no           *)
(* chatcmpl_id is supplied and the stream spans several provider turns.    *)
(***************************************************************************)
C14_ChunksShareOneId ==
    \A j, k \in 1..Len(chunks) : chunks[j].id = chunks[k].id

(***************************************************************************)
(* C15. A fragment that carries only tool-call deltas (no content, no      *)
(* finish signal) yields no chunk; every chunk the stream emits is a       *)
(* content chunk (its delta carries the text of a fragment) or a           *)
(* finish-reason chunk (empty delta, non-null finish_reason); a chunk has  *)
(* no field for a tool call, and no tool-call id, name or arguments text   *)
(* appears in one.                                                         *)
(***************************************************************************)
\* the texts the fragments read so far carry as content
FragmentTexts ==
    { frags[k].fragment.content : k \in { j \in 1..Len(frags) :
                                            Truthy(frags[j].fragment.content) } }

\* the tool-call ids, names and argument texts the provider may send
ToolCallTexts ==
    Ids \cup Names \cup ArgTexts
    \cup { d.id : d \in Deltas }
    \cup UNION { {d.function.name, d.function.arguments} :
                 d \in { e \in Deltas : e.function # NoFunction } }

IsContentChunk(c) == c.delta.content \in FragmentTexts
IsFinishChunk(c) == c.delta.content = None /\ c.finish_reason # None

C15_OnlyContentAndFinishChunks ==
    \A k \in 1..Len(chunks) :
        /\ IsContentChunk(chunks[k]) \/ IsFinishChunk(chunks[k])
        /\ DOMAIN chunks[k] = {"id", "delta", "finish_reason"}
        /\ DOMAIN chunks[k].delta = {"reason", "content", "refusal"}
        /\ chunks[k].delta.reason = None /\ chunks[k].delta.refusal = None
        /\ chunks[k].delta.content \notin ToolCallTexts \ {None}
        /\ chunks[k].id \notin ToolCallTexts

C15_ToolFragmentYieldsNothing ==
    (/\ ReadsFragment
     /\ FragmentRead.tool_calls # <<>>
     /\ ~Truthy(FragmentRead.content)
     /\ ~Truthy(FragmentRead.finish_reason))
    => chunks' = chunks /\ stream'.items = stream.items

C15_NoChunkForToolCalls ==
    [] C15_OnlyContentAndFinishChunks /\ [][C15_ToolFragmentYieldsNothing]_vars

C15_Witness ==
    /\ mode = "stream"
    /\ Len(frags) = 2
    /\ frags[1].fragment.tool_calls # <<>> /\ frags[1].fragment.content = None
    /\ frags[2].fragment.tool_calls # <<>> /\ frags[2].fragment.content = None
    /\ Len(tool_calls_buffer) = 2
    /\ chunks = <<>>

(***************************************************************************)
(* C16. However the name and the arguments text of a tool call are split   *)
(* across fragments and however the fragments of different indices are     *)
(* interleaved, streaming mode builds one ToolCallsParams per distinct     *)
(* index of a turn, in the order the indices first arrive; its function    *)
(* name is the concatenation of that index's name pieces and its arguments *)
(* the concatenation of its argument pieces, in arrival order. The ledger  *)
(* holds these requests for every turn read to its end: all of them once   *)
(* the turn's tool calls are processed, the first ones while they are      *)
(* being processed or after an exception has left the engine.              *)
(***************************************************************************)
\* the tool-call deltas the fragments fs carry, each with its turn
RECURSIVE TurnDeltas(_)
TurnDeltas(fs) ==
    IF fs = <<>> THEN <<>>
    ELSE [k \in 1..Len(Head(fs).fragment.tool_calls) |->
            [turn |-> Head(fs).turn, delta |-> Head(fs).fragment.tool_calls[k]]]
         \o TurnDeltas(Tail(fs))

\* the text with a piece put after it; a missing or empty piece adds nothing
Joined(text, piece) ==
    IF ~Truthy(piece) THEN text ELSE IF text = "" THEN piece ELSE text \o piece

\* the name and the arguments of the call key (a turn and an index): the
\* pieces the deltas ds carry for it, appended to f in arrival order
RECURSIVE Assembled(_, _, _)
Assembled(ds, key, f) ==
    IF ds = <<>> THEN f
    ELSE LET d == Head(ds).delta IN
         IF << Head(ds).turn, d.index >> = key /\ d.function # NoFunction
         THEN Assembled(Tail(ds), key,
                        Function(Joined(f.name, d.function.name),
                                 Joined(f.arguments, d.function.arguments)))
         ELSE Assembled(Tail(ds), key, f)

\* the turn and index of every tool call the deltas ds open, in the order the
\* calls are opened
RECURSIVE Openings(_, _)
Openings(ds, seen) ==
    IF ds = <<>> THEN <<>>
    ELSE LET key == << Head(ds).turn, Head(ds).delta.index >> IN
         IF key \in seen THEN Openings(Tail(ds), seen)
         ELSE << key >> \o Openings(Tail(ds), seen \cup {key})

\* one request per opened call, its name and arguments put together from the
\* pieces of its turn and index
RECURSIVE RequestsOf(_, _)
RequestsOf(ds, keys) ==
    IF keys = <<>> THEN <<>>
    ELSE << Assembled(ds, Head(keys), Function("", "")) >> \o RequestsOf(ds, Tail(keys))

\* the fragments of the turns read to their end
EndedTurns(fs) == SelectSeq(fs, LAMBDA f : f.turn <= Len(turns))

\* the requests the turns read to their end call for: one per turn and index
ExpectedFor(ds) == RequestsOf(ds, Openings(ds, {}))

ExpectedRequests == ExpectedFor(TurnDeltas(EndedTurns(frags)))

\* the functions of the ToolCallsParams of the ledger, in order
LedgerRequests ==
    LET ps == SelectSeq(msgs, IsParams) IN [k \in 1..Len(ps) |-> ps[k].function]

C16_ReassembledPerIndex ==
    mode = "stream" =>
        LET built == LedgerRequests
            expected == ExpectedRequests
        IN /\ Len(built) <= Len(expected)
           /\ \A k \in 1..Len(built) : built[k] = expected[k]
           /\ pc \in {"request", "reading", "finished", "done"} =>
                 Len(built) = Len(expected)
           /\ pc \in {"tools", "invoking", "invoked"} =>
                 Len(expected) - Len(built)
                    = Len(tool_calls_buffer) - (IF pc = "tools" THEN i - 1 ELSE i)

C16_Witness ==
    /\ mode = "stream"
    /\ Len(frags) = 3
    /\ frags[1].fragment.tool_calls = << Delta(0, "c1", Function("get_", None)) >>
    /\ frags[2].fragment.tool_calls = << Delta(0, None, Function("weather", BadArgs)) >>
    /\ frags[3].fragment.tool_calls = << Delta(0, None, Function(None, ArgsTail)) >>
    /\ LedgerRequests = << Function("get_weather", GoodArgs) >>
    /\ pc = "request"

C16_WitnessInterleaved ==
    /\ mode = "stream"
    /\ Len(frags) = 3
    /\ frags[1].fragment.tool_calls = << Delta(1, None, Function("lookup", BadArgs)) >>
    /\ frags[2].fragment.tool_calls = << Delta(0, "c1", Function("get_", None)) >>
    /\ frags[3].fragment.tool_calls = << Delta(0, None, Function("weather", BadArgs)) >>
    /\ LedgerRequests = << Function("lookup", BadArgs), Function("get_weather", BadArgs) >>

(***************************************************************************)
(* C17. If the transport fails while a streamed turn is being requested or *)
(* consumed, the engine neither retries nor swallows the failure: the      *)
(* iteration of the returned stream ends by raising that error, the stream *)
(* records it as its error and is marked completed, the chunks emitted     *)
(* before the failure stay cached in their order, and nothing is requested *)
(* or yielded afterwards.                                                  *)
(***************************************************************************)
TransportFailed == mode = "stream" /\ error = "TransportError"

C17_FailureRecorded ==
    TransportFailed =>
        /\ pc = "raised"
        /\ stream.error = "TransportError"
        /\ stream.completed
        /\ stream.items = chunks

C17_FailureStep ==
    /\ (mode = "stream" /\ error = None /\ error' = "TransportError") =>
          /\ pc \in {"request", "reading"}
          /\ stream'.items = stream.items
          /\ chunks' = chunks
          /\ msgs' = msgs
    /\ TransportFailed =>
          /\ iteration' = iteration
          /\ stream' = stream
          /\ pc' = pc /\ error' = error

C17_TransportFailurePropagates ==
    [] C17_FailureRecorded /\ [][C17_FailureStep]_vars

C17_Witness ==
    /\ TransportFailed
    /\ iteration = 2
    /\ Len(stream.items) = 2
    /\ stream.items[1].delta.content = StreamContent

(***************************************************************************)
(* Vocabulary of the AsyncStream properties.                               *)
(***************************************************************************)
\* the iterations that began on a completed stream and have come to their end
LaterPasses ==
    { p \in 1..Len(passes) :
        /\ ~passes[p].first /\ passes[p].on_completed
        /\ passes[p].state \in {"ended", "raised"} }

\* the first pass read the producer to its end
FullyConsumed == passes # <<>> /\ passes[1].first /\ passes[1].state = "ended"

\* the producer raised in the first pass
FirstPassFailed == passes # <<>> /\ passes[1].first /\ passes[1].state = "raised"

(***************************************************************************)
(* C18. Iterating a fully consumed stream a second and any further time    *)
(* yields the same ordered item sequence as the first iteration, and the   *)
(* producer is not invoked again: it has been started once, and no step    *)
(* taken once the stream is completed starts it or takes an item from it.  *)
(***************************************************************************)
C18_ReplaysEqualFirstPass ==
    /\ started <= 1
    /\ FullyConsumed =>
          /\ started = 1
          /\ \A p \in LaterPasses :
                /\ passes[p].state = "ended"
                /\ passes[p].seen = passes[1].seen
                /\ passes[p].seen =
                      [k \in 1..Len(source.items) |-> Mapped(source.mapper, source.items[k])]

C18_ProducerLeftAlone ==
    stream.completed => (started' = started /\ cursor' = cursor /\ stream' = stream)

C18_ReplayIdempotent ==
    [] C18_ReplaysEqualFirstPass /\ [][C18_ProducerLeftAlone]_vars

C18_Witness ==
    /\ FullyConsumed
    /\ Len(passes) = 3
    /\ LaterPasses = {2, 3}
    /\ passes[1].seen = << 2, 4, 2 >>
    /\ started = 1

(***************************************************************************)
(* C19. If the producer raises partway through the first iteration, the    *)
(* error is raised to that first consumer and recorded, together with the  *)
(* items cached before it; every later iteration yields exactly those      *)
(* cached items, in order, and the producer is never touched again.        *)
(***************************************************************************)
C19_PartialItemsKept ==
    /\ (passes # <<>> /\ source.raises) => passes[1].state # "ended"
    /\ FirstPassFailed =>
          /\ stream.error = "ProducerError"
          /\ stream.completed
          /\ stream.items = passes[1].seen
          /\ stream.items =
                [k \in 1..Len(source.items) |-> Mapped(source.mapper, source.items[k])]
          /\ cursor = Len(source.items) /\ started = 1
          /\ \A p \in LaterPasses : passes[p].seen = stream.items

C19_NothingAfterFailure ==
    (stream.error # None) => (started' = started /\ cursor' = cursor /\ stream' = stream)

C19_FailedFirstPassReplays ==
    [] C19_PartialItemsKept /\ [][C19_NothingAfterFailure]_vars

C19_Witness ==
    /\ FirstPassFailed
    /\ passes[1].seen = << 1, 2 >>
    /\ LaterPasses = {2, 3}

(***************************************************************************)
(* C20. An exception raised during the first consumption of a stream is    *)
(* cached and re-raised on replay: a later iteration of the same stream    *)
(* raises that exception again instead of ending normally.                 *)
(***************************************************************************)
C20_ReplayRaisesAgain ==
    FirstPassFailed => \A p \in LaterPasses : passes[p].state = "raised"

(***************************************************************************)
(* C21. Composing a combinator (map, filter, take, take_while, skip,       *)
(* chunk, enumerate, tap) takes no item from the producer and leaves the   *)
(* source stream's consumed flag, cache and error as they were; the        *)
(* derived stream is new and its generator has not run.  The producer is   *)
(* started and read only once the derived stream or the source is          *)
(* iterated.                                                               *)
(***************************************************************************)
C21_ComposeLeavesSource ==
    (derived.op = None /\ derived'.op # None) =>
        /\ stream' = stream /\ started' = started /\ cursor' = cursor
        /\ derived'.s = AsyncStream /\ derived'.inner = NoInner
        /\ derived'.pulled = <<>>

C21_UntouchedUntilIterated ==
    (passes = <<>> /\ derived.inner = NoInner) =>
        (stream = AsyncStream /\ started = 0 /\ cursor = 0)

C21_ComposingIsLazy ==
    [] C21_UntouchedUntilIterated /\ [][C21_ComposeLeavesSource]_vars

C21_Witness ==
    /\ derived.op = "map" /\ derived.inner = NoInner
    /\ passes = <<>> /\ stream = AsyncStream
    /\ source.items = << 1, 2 >>

(***************************************************************************)
(* C22. A stream is marked completed only when its producer was exhausted  *)
(* or raised, so that is_completed tells that the stream has been fully    *)
(* consumed, also after a first iteration the consumer left early.         *)
(***************************************************************************)
C22_CompletedMeansFullyConsumed ==
    stream.completed =>
        /\ cursor = Len(source.items)
        /\ \E p \in 1..Len(passes) :
              passes[p].first /\ passes[p].state \in {"ended", "raised"}

(***************************************************************************)
(* C23. For every size >= 1 and every source, the batches chunk(size)      *)
(* yields, followed by the batch under way, are the items taken from the   *)
(* source in order; no batch is empty or longer than size, every batch but *)
(* the last has exactly size items, and when the source has ended nothing  *)
(* is left in the batch under way.                                         *)
(***************************************************************************)
RECURSIVE Flat(_)
Flat(batches) == IF batches = <<>> THEN <<>> ELSE Head(batches) \o Flat(Tail(batches))

C23_ChunkBatches ==
    derived.op = "chunk" =>
        LET batches == derived.s.items
            size == derived.arg
        IN /\ Flat(batches) \o derived.batch = derived.pulled
           /\ IsPrefix(derived.pulled, stream.items)
           /\ Len(derived.batch) < size
           /\ \A k \in 1..Len(batches) :
                 /\ batches[k] # <<>>
                 /\ Len(batches[k]) <= size
                 /\ (Len(batches[k]) < size =>
                        k = Len(batches) /\ derived.inner.state = "ended")
           /\ derived.inner.state = "ended" =>
                 /\ derived.batch = <<>>
                 /\ derived.s.completed
                 /\ derived.inner.first =>
                       derived.pulled =
                           [k \in 1..Len(source.items) |->
                               Mapped(source.mapper, source.items[k])]

C23_Witness ==
    /\ derived.op = "chunk" /\ derived.arg = 2
    /\ derived.inner.state = "ended"
    /\ derived.s.items = << << 1, 2 >>, << 1 >> >>

(***************************************************************************)
(* C24. Both modes store the result of a tool call as the same ToolCalls   *)
(* content: a text unchanged; of a list, each item that is not a text      *)
(* JSON-encoded on its own and each text unchanged; of anything else the   *)
(* JSON encoding of the whole result, null for None.                       *)
(***************************************************************************)
\* the content the claim states for a result
C24_Content(tool_result) ==
    CASE Is("str", tool_result) -> tool_result.str
      [] Is("list", tool_result) ->
           [k \in 1..Len(tool_result.list) |->
              IF Is("str", tool_result.list[k]) THEN tool_result.list[k].str
              ELSE json_dumps(tool_result.list[k])]
      [] OTHER -> json_dumps(tool_result)

C24_Encodings ==
    /\ json_dumps(NoneValue) = "null"
    /\ json_dumps(Int(0 - 3)) = "-3"
    /\ json_dumps(Bool(TRUE)) = "true"
    /\ json_dumps(Dict(<< << "temp", Int(15) >> >>)) = "{\"temp\": 15}"
    /\ json_dumps(List(<< Str("a"), Int(1) >>)) = "[\"a\", 1]"

C24_SameContentInBothModes ==
    /\ C24_Encodings
    /\ encoding.atomic # NotStored =>
          encoding.atomic = ToolCalls("call_1", C24_Content(encoding.result))
    /\ encoding.stream # NotStored =>
          encoding.stream = ToolCalls("call_1", C24_Content(encoding.result))
    /\ (encoding.atomic # NotStored /\ encoding.stream # NotStored) =>
          encoding.atomic.content = encoding.stream.content

C24_Witness ==
    /\ encoding.result = List(<< Str("Sunny"), Dict(<< << "temp", Int(15) >> >>) >>)
    /\ encoding.atomic # NotStored /\ encoding.stream # NotStored
    /\ encoding.stream.content = << "Sunny", "{\"temp\": 15}" >>

(***************************************************************************)
(* C25. A parameter annotated with a Literal and given no Property enum    *)
(* derives an enum listing the literal's values in declaration order and   *)
(* the JSON type of the kind of the values: string for texts, integer for  *)
(* ints, number for floats, boolean for bools.                             *)
(***************************************************************************)
\* the JSON type the claim gives to a literal value
C25_TypeOf(value) ==
    CASE Is("str", value) -> "string"
      [] Is("int", value) -> "integer"
      [] Is("float", value) -> "number"
      [] Is("bool", value) -> "boolean"

C25_LiteralTypeAndEnum ==
    ( /\ schema.property # NotDerived
      /\ schema.actual_type.origin = "Literal"
      /\ schema.prop_desc \in { NoProperty, Property(NoEnums) }
      /\ \A k \in 1..Len(schema.actual_type.args) :
            C25_TypeOf(schema.actual_type.args[k]) = C25_TypeOf(schema.actual_type.args[1]) )
    => /\ schema.property.enum = Enums(schema.actual_type.args)
       /\ schema.property.type = C25_TypeOf(schema.actual_type.args[1])

(***************************************************************************)
(* C26. A ledger that violates the conversational structure (empty, first  *)
(* entry not system, a second system entry, two consecutive equal roles,   *)
(* last entry not user) is rejected when it is constructed: no provider    *)
(* request is sent for it, whether it was constructed directly or          *)
(* assembled by the context pipeline with from_raws.                       *)
(***************************************************************************)
\* the structure the claim requires of a ledger
C26_Structured(roles) ==
    /\ roles # <<>>
    /\ roles[1] = "system"
    /\ \A k \in 2..Len(roles) : roles[k] # "system" /\ roles[k - 1] # roles[k]
    /\ roles[Len(roles)] = "user"

C26_InvalidLedgerNeverSent ==
    /\ pipeline.stage \in {"ledger", "requested"} => C26_Structured(pipeline.ledger)
    /\ pipeline.requests > 0 => C26_Structured(pipeline.ledger)

\* what holds of the ledgers the constructor made
C26_ConstructedLedgerValid ==
    (pipeline.stage \in {"ledger", "requested"} /\ pipeline.by = "constructor")
        => C26_Structured(pipeline.ledger)

(***************************************************************************)
(* C27. A load that fails to parse the file leaves data as it was          *)
(* immediately before that load, which is the result of the most recent    *)
(* successful load.                                                        *)
(***************************************************************************)
C27_FailedLoad ==
    (resource'.loads = resource.loads + 1 /\ resource'.last = "failed")
        => resource'.data = resource.data

C27_FailedLoadKeepsData == [][C27_FailedLoad]_vars

(***************************************************************************)
(* C28. The constructor of a class under the singleton decorator runs at   *)
(* most once, under every interleaving of calls from several threads and   *)
(* under a nested call made inside the constructor, and every call         *)
(* returns the one instance.                                               *)
(***************************************************************************)
C28_ConstructedOnce ==
    /\ singleton.constructed <= 1
    /\ \A t \in Threads : \A k \in 1..Len(singleton.returned[t]) :
          singleton.returned[t][k] = 1

\* what holds of a class whose constructor makes no nested call
C28_ConstructedOnceWithoutNesting == ~singleton.nests => C28_ConstructedOnce

(***************************************************************************)
(* C29. After any sequence of register, unregister, item assignment and    *)
(* item deletion on an Orch, every key maps to a persona whose id is the   *)
(* key; registering or assigning an id already present raises ValueError,  *)
(* assigning under a key other than the persona's id raises ValueError,    *)
(* unregistering or deleting an absent id raises KeyError, and a call that *)
(* raised has left the registry as it found it.                            *)
(***************************************************************************)
C29_RegistryKeyedById ==
    /\ \A key \in DOMAIN orch._ins : orch._ins[key].id = key
    /\ orch.raised # None => orch._ins = orch.before
    /\ (orch.op \in {"register", "__setitem__"} /\ orch.persona.id \in DOMAIN orch.before)
          => orch.raised = "ValueError"
    /\ (orch.op = "__setitem__" /\ orch.key # orch.persona.id)
          => orch.raised = "ValueError"
    /\ (orch.op \in {"unregister", "__delitem__"} /\ orch.key \notin DOMAIN orch.before)
          => orch.raised = "KeyError"

C29_Witness ==
    /\ orch.op = "__setitem__" /\ orch.raised = "ValueError"
    /\ orch.key = orch.persona.id
    /\ orch.before[orch.key].instance # orch.persona.instance
    /\ Cardinality(DOMAIN orch._ins) = 2

(***************************************************************************)
(* C30. A key whose TTL has elapsed behaves like a key that does not       *)
(* exist, whatever was set, expired and incremented before and however far *)
(* the clock has run: item access, deletion, pop, ttl and expire raise     *)
(* KeyError, get returns None, membership is false, length and iteration   *)
(* leave it out, incr restarts it from 0, popitem never returns it.        *)
(***************************************************************************)
\* the calls on one key, but popitem
C30_ExpiredKeyCalls ==
    cache.last.expired =>
        /\ cache.last.op \in {"getitem", "delitem", "pop", "ttl", "expire"}
              => cache.last.raised = "KeyError"
        /\ cache.last.op = "get" => cache.last.out = NoneValue
        /\ cache.last.op = "contains" => cache.last.out = Bool(FALSE)
        /\ cache.last.op = "incr" => cache.last.out = Int(1)

\* the calls on the whole cache
C30_ExpiredKeysLeftOut ==
    /\ cache.last.op = "len" => cache.last.out = Int(Cardinality(cache.last.live))
    /\ cache.last.op = "iter" => cache.last.out.keys = cache.last.live

C30_PopitemSkipsExpired ==
    (cache.last.op = "popitem" /\ cache.last.raised = None) => ~cache.last.expired

C30_ExpiredLikeAbsent ==
    C30_ExpiredKeyCalls /\ C30_ExpiredKeysLeftOut /\ C30_PopitemSkipsExpired

\* what holds of every call but popitem
C30_ExpiredLikeAbsentButPopitem == C30_ExpiredKeyCalls /\ C30_ExpiredKeysLeftOut

(***************************************************************************)
(* The ledger of a completion call, turn by turn.                          *)
(***************************************************************************)
\* the positions of the assistant messages the engine has appended
AssistantAt == { j \in (Len(messages) + 1)..Len(msgs) : msgs[j].type = "Message" }

\* the position of the assistant message of turn t, and of the last entry
\* appended for that turn
BlockStart(t) ==
    CHOOSE j \in AssistantAt : Cardinality({ h \in AssistantAt : h <= j }) = t

BlockEnd(t) == IF t < Cardinality(AssistantAt) THEN BlockStart(t + 1) - 1 ELSE Len(msgs)

\* the entries appended for turn t after its assistant message
Block(t) == SubSeq(msgs, BlockStart(t) + 1, BlockEnd(t))

\* the tool calls of a turn the engine takes up
FunctionCalls(tcs) ==
    IF mode = "stream" THEN tcs ELSE SelectSeq(tcs, LAMBDA tc : tc.type = "function")

\* the ledger entries a wire message stands for
LedgerOfWire(w) ==
    IF w.role = "tool" THEN << ToolCalls(w.tool_call_id, w.content) >>
    ELSE (IF "content" \in DOMAIN w THEN << Message(w.role, w.content) >> ELSE << >>)
         \o [ k \in 1..Len(WireCallsOf(w)) |->
                ToolCallsParams(WireCallsOf(w)[k].id, WireCallsOf(w)[k].function) ]

RECURSIVE LedgerOf(_)
LedgerOf(wires) ==
    IF wires = << >> THEN << >>
    ELSE LedgerOfWire(Head(wires)) \o LedgerOf(Tail(wires))

(***************************************************************************)
(* C31. In both modes the entries a loop iteration appends are ordered:    *)
(* the assistant message of the turn first, then for each tool call of the *)
(* turn, in request order, its ToolCallsParams immediately followed by its *)
(* own ToolCalls; the ledger only grows at its end; and when the next      *)
(* request is sent all of them are in the ledger and the request carries   *)
(* every entry of the ledger.                                              *)
(***************************************************************************)
\* from position pos on, the ledger holds the entries of turns t, t + 1, ...
\* and nothing else: per turn the assistant message, then the pairs of its
\* tool calls; only the last turn may still lack entries
RECURSIVE OrderedFrom(_, _)
OrderedFrom(pos, t) ==
    IF t > Len(turns) THEN pos = Len(msgs) + 1
    ELSE LET calls == FunctionCalls(turns[t].tool_calls)
             have == IF pos + 2 * Len(calls) <= Len(msgs)
                     THEN 2 * Len(calls) ELSE Len(msgs) - pos
         IN /\ pos <= Len(msgs)
            /\ msgs[pos] = Message("assistant", OrEmpty(turns[t].content))
            /\ \A k \in 1..have :
                  IF k % 2 = 1
                  THEN /\ IsParams(msgs[pos + k])
                       /\ msgs[pos + k].call_id = calls[(k + 1) \div 2].id
                       /\ msgs[pos + k].function.name = calls[(k + 1) \div 2].function.name
                  ELSE /\ IsResult(msgs[pos + k])
                       /\ msgs[pos + k].call_id = calls[k \div 2].id
                       /\ msgs[pos + k].call_id = msgs[pos + k - 1].call_id
            /\ have < 2 * Len(calls) => (t = Len(turns) /\ pc # "request")
            /\ have % 2 = 1 => pc \in {"invoking", "invoked", "raised"}
            /\ OrderedFrom(pos + 1 + have, t + 1)

C31_BlocksOrdered == OrderedFrom(Len(messages) + 1, 1)

C31_RequestCarriesLedger ==
    iteration' # iteration =>
        /\ pc = "request"
        /\ LedgerOf(request') = msgs
        /\ IsPrefix(msgs, msgs')

C31_AppendsStrictlyOrdered ==
    /\ [] C31_BlocksOrdered
    /\ [][IsPrefix(msgs, msgs') /\ C31_RequestCarriesLedger]_vars

C31_Witness ==
    /\ mode = "stream" /\ iteration = 2 /\ pc = "reading"
    /\ Len(FunctionCalls(turns[1].tool_calls)) = 2
    /\ Len(LedgerOf(request)) = Len(messages) + 5
    /\ IsResult(Last(msgs))

(***************************************************************************)
(* C32. In the wire messages of a request, the ToolCallsParams of one      *)
(* earlier turn are merged: a turn that asked for n >= 2 tool calls is one *)
(* assistant wire message carrying all n tool-call records, followed by    *)
(* the n tool-role messages (the statement as the claim makes it).         *)
(***************************************************************************)
\* the wire messages from position j on are turn t merged
MergedAt(j, t) ==
    LET calls == FunctionCalls(turns[t].tool_calls)
        n == Len(calls)
    IN /\ j + n <= Len(request)
       /\ request[j].role = "assistant"
       /\ Len(WireCallsOf(request[j])) = n
       /\ \A k \in 1..n :
             /\ WireCallsOf(request[j])[k].id = calls[k].id
             /\ request[j + k].role = "tool"
             /\ request[j + k].tool_call_id = calls[k].id

C32_TurnCallsMerged ==
    \A t \in 1..(iteration - 1) :
        Len(FunctionCalls(turns[t].tool_calls)) >= 2 =>
            \E j \in 1..Len(request) : MergedAt(j, t)

\* what the code does with such a turn: every ToolCallsParams after the
\* first follows a ToolCalls and opens an assistant wire message of its own
C32_LaterCallsOpenOwnMessage ==
    \A t \in 1..(iteration - 1) :
        LET calls == FunctionCalls(turns[t].tool_calls) IN
        Len(calls) >= 2 =>
            \E j \in 1..(Len(request) - 3) :
                /\ request[j].role = "assistant"
                /\ "content" \in DOMAIN request[j]
                /\ Len(WireCallsOf(request[j])) = 1
                /\ request[j + 1].role = "tool"
                /\ request[j + 2] = WireToolCalls(<< WireCallsOf(request[j + 2])[1] >>)
                /\ "content" \notin DOMAIN request[j + 2]
                /\ request[j + 3].role = "tool"

(***************************************************************************)
(* C33. The tool calls of a turn are processed one after the other in      *)
(* request order: while a tool runs, its ToolCallsParams is the last entry *)
(* of the ledger and every earlier call of the turn has its result in the  *)
(* ledger; at most one ToolCallsParams is without its ToolCalls, so no two *)
(* invocations are in flight; and the position in the turn moves forward   *)
(* one call at a time.                                                     *)
(***************************************************************************)
\* a tool invocation is under way
InFlight == pc \in {"invoking", "invoked"}

C33_OneCallAtATime ==
    /\ Cardinality(ParamsAt) \in { Cardinality(ResultsAt), Cardinality(ResultsAt) + 1 }
    /\ InFlight =>
          /\ Cardinality(ParamsAt) = Cardinality(ResultsAt) + 1
          /\ IsParams(Last(msgs))
          /\ Last(msgs).call_id = CurrentCalls[i].id
          /\ Len(Block(Len(turns)))
                = 2 * Len(FunctionCalls(SubSeq(CurrentCalls, 1, i - 1))) + 1
    /\ (~InFlight /\ pc # "raised") => Cardinality(ParamsAt) = Cardinality(ResultsAt)

C33_InRequestOrder ==
    /\ i' # i =>
          \/ i' = i + 1 /\ pc \in {"tools", "invoked"} /\ i' <= Len(CurrentCalls)
          \/ i' = 1 /\ pc \in {"request", "reading", "finished"}
    /\ (pc' = "invoking" /\ pc # "invoking") =>
          /\ pc = "tools" /\ i' = i
          /\ Cardinality(ParamsAt) = Cardinality(ResultsAt)
    /\ (pc \in {"tools", "invoked"} /\ pc' = "request") => i = Len(CurrentCalls)

C33_SequentialToolCalls ==
    [] C33_OneCallAtATime /\ [][C33_InRequestOrder]_vars

C33_Witness ==
    /\ mode = "atomic" /\ pc = "invoking" /\ i = 2
    /\ CurrentCalls[1].type = "function"
    /\ CurrentCalls[1].function.name = "get_weather"
    /\ IsResult(msgs[Len(msgs) - 1])

(***************************************************************************)
(* C34. In streaming mode, when a turn's fragments are over, another turn  *)
(* is requested if and only if a tool-call delta was accumulated in that   *)
(* turn, otherwise the generator ends; so the generator ends on the first  *)
(* turn k without a tool-call delta, after exactly k requests, and, with a *)
(* provider that answers and tools that raise at most ToolCallError,       *)
(* nothing else ends it (the statement as the claim makes it).             *)
(***************************************************************************)
\* a tool-call delta was accumulated in streamed turn t
DeltaInTurn(t) ==
    \E k \in 1..Len(frags) :
        /\ frags[k].turn = t
        /\ frags[k].fragment.has_choice
        /\ frags[k].fragment.tool_calls # << >>

\* the streamed turns go on after a turn with tool-call deltas and only after
\* such a turn, and the generator ends after as many requests as turns
TurnsFollowDeltas ==
    /\ iteration >= Len(turns)
    /\ \A t \in 1..(Len(turns) - 1) : DeltaInTurn(t)
    /\ pc = "done" <=> (turns # << >> /\ ~DeltaInTurn(Len(turns)))
    /\ pc = "done" => iteration = Len(turns)
    /\ (pc = "request" /\ iteration > 0) =>
          (iteration = Len(turns) /\ DeltaInTurn(Len(turns)))

C34_NextTurnIffToolCallDeltas ==
    mode = "stream" =>
        /\ TurnsFollowDeltas
        /\ pc = "raised" => error \in {"TransportError", "Exception"}

\* the same, a JSONDecodeError of json.loads counted among the ways out
C34_NextTurnIffDeltasUnlessParseError ==
    mode = "stream" =>
        /\ TurnsFollowDeltas
        /\ pc = "raised" => error \in {"TransportError", "Exception", "JSONDecodeError"}

(***************************************************************************)
(* A provider turn delivered whole, and the same turn delivered as         *)
(* fragments: the text is cut in pieces, and each tool call, at its index, *)
(* has its id on one of its deltas and its name and arguments cut in       *)
(* pieces over its deltas.                                                 *)
(***************************************************************************)
\* the fragments of streamed turn t that carry a choice
TurnFragments(t) ==
    SelectSeq(frags, LAMBDA f : f.turn = t /\ f.fragment.has_choice)

RECURSIVE DeltasIn(_)
DeltasIn(fs) ==
    IF fs = << >> THEN << >> ELSE Head(fs).fragment.tool_calls \o DeltasIn(Tail(fs))

\* the tool-call deltas of streamed turn t, in arrival order
DeltasOfTurn(t) == DeltasIn(TurnFragments(t))

IndicesOf(ds) == { ds[k].index : k \in 1..Len(ds) }

\* the deltas of one tool call, and the ids they carry
PiecesAt(ds, index) == SelectSeq(ds, LAMBDA d : d.index = index)
IdsAt(ds, index) ==
    { PiecesAt(ds, index)[k].id :
        k \in { h \in 1..Len(PiecesAt(ds, index)) : Truthy(PiecesAt(ds, index)[h].id) } }

RECURSIVE NameOf(_)
NameOf(pieces) ==
    IF pieces = << >> THEN ""
    ELSE (IF Head(pieces).function # NoFunction /\ Truthy(Head(pieces).function.name)
          THEN Head(pieces).function.name ELSE "") \o NameOf(Tail(pieces))

RECURSIVE ArgumentsOf(_)
ArgumentsOf(pieces) ==
    IF pieces = << >> THEN ""
    ELSE (IF Head(pieces).function # NoFunction /\ Truthy(Head(pieces).function.arguments)
          THEN Head(pieces).function.arguments ELSE "") \o ArgumentsOf(Tail(pieces))

\* the tool call the deltas of one index are the pieces of
WholeCall(ds, index) ==
    [type |-> "function",
     id |-> CHOOSE id \in IdsAt(ds, index) : TRUE,
     function |-> Function(NameOf(PiecesAt(ds, index)), ArgumentsOf(PiecesAt(ds, index)))]

\* the tool calls of the whole turn, by index
RECURSIVE WholeCalls(_, _)
WholeCalls(ds, indices) ==
    IF indices = {} THEN << >>
    ELSE LET first == CHOOSE x \in indices : \A y \in indices : x <= y
         IN << WholeCall(ds, first) >> \o WholeCalls(ds, indices \ {first})

RECURSIVE WholeContent(_)
WholeContent(fs) ==
    IF fs = << >> THEN ""
    ELSE OrEmpty(Head(fs).fragment.content) \o WholeContent(Tail(fs))

\* the fragments of turn t are the pieces of a whole turn: every tool call
\* has one id
IsSplit(t) ==
    \A index \in IndicesOf(DeltasOfTurn(t)) : Cardinality(IdsAt(DeltasOfTurn(t), index)) = 1

\* the provider turn t as a whole
WholeTurn(t) ==
    IF mode = "atomic" THEN turns[t]
    ELSE Turn(WholeContent(TurnFragments(t)),
              WholeCalls(DeltasOfTurn(t), IndicesOf(DeltasOfTurn(t))))

\* the ToolCalls entries atomic mode can append for a tool call
AtomicResults(call) ==
    IF InToolsMap(call.function.name)
    THEN { ToolCalls(call.id, ResultStr(r)) : r \in ToolResults }
         \cup { ToolCalls(call.id, ErrorExecuting(call.function.name)) }
    ELSE { ToolCalls(call.id, NotAvailable(call.function.name)) }

\* the entries appended for turn t are those of the whole turn
LedgerOfWholeTurn(t) ==
    LET whole == WholeTurn(t)
        calls == FunctionCalls(whole.tool_calls)
        b == Block(t)
    IN /\ msgs[BlockStart(t)] = Message("assistant", OrEmpty(whole.content))
       /\ Len(b) <= 2 * Len(calls)
       /\ \A k \in 1..Len(b) :
             IF k % 2 = 1
             THEN LET call == calls[(k + 1) \div 2]
                  IN b[k] = ToolCallsParams(call.id,
                                Function(call.function.name, call.function.arguments))
             ELSE b[k] \in AtomicResults(calls[k \div 2])
       /\ (t < Len(turns) \/ pc = "request") => Len(b) = 2 * Len(calls)

\* a tool's outcome becomes the same ToolCalls entry in both modes
SameResultEntry ==
    (pc = "invoked" /\ msgs' # msgs) =>
        Last(msgs') = ToolCalls(CurrentCalls[i].id,
                          IF outcome.kind = "return" THEN ResultStr(outcome.value)
                          ELSE ErrorExecuting(CurrentCalls[i].function.name))

(***************************************************************************)
(* C35. Whether the provider turns are delivered whole (atomic mode) or as *)
(* any split into fragments (streaming mode), the ledger is the same: for  *)
(* every turn the assistant message with the turn's text, then for each    *)
(* tool call of the whole turn, in its order, the ToolCallsParams with its *)
(* id, name and arguments and the ToolCalls made of the tool's outcome     *)
(* (the statement as the claim makes it).                                  *)
(***************************************************************************)
C35_LedgerOfWholeTurns ==
    \A t \in 1..Len(turns) : (mode = "stream" => IsSplit(t)) => LedgerOfWholeTurn(t)

C35_SameLedgerInBothModes ==
    [] C35_LedgerOfWholeTurns /\ [][SameResultEntry]_vars

\* every tool call of streamed turn t has its id on its first delta, and the
\* tool calls start in the order of their indices
IdsFirstInIndexOrder(t) ==
    LET ds == DeltasOfTurn(t) IN
    /\ \A index \in IndicesOf(ds) : Truthy(PiecesAt(ds, index)[1].id)
    /\ \A j, h \in 1..Len(ds) : (j < h /\ ds[h].index < ds[j].index) =>
          \E g \in 1..(j - 1) : ds[g].index = ds[h].index

\* the same for the splits that put every id first and keep the index order
C35_LedgerOfOrderedSplits ==
    \A t \in 1..Len(turns) :
        (mode = "stream" => (IsSplit(t) /\ IdsFirstInIndexOrder(t))) => LedgerOfWholeTurn(t)

C35_SameLedgerForOrderedSplits ==
    [] C35_LedgerOfOrderedSplits /\ [][SameResultEntry]_vars

(***************************************************************************)
(* C36. A completion call never changes the message sequence the caller    *)
(* supplied: every append goes to the engine's own copy, which starts as   *)
(* the caller's sequence and only grows at its end.                        *)
(***************************************************************************)
C36_LedgerExtendsMessages ==
    /\ messages \in CallerMessages
    /\ IsPrefix(messages, msgs)
    /\ Len(msgs) = Len(messages) + Cardinality(AssistantAt)
                     + Cardinality(ParamsAt) + Cardinality(ResultsAt)

C36_CallerMessagesUntouched ==
    /\ [] C36_LedgerExtendsMessages
    /\ [][messages' = messages /\ IsPrefix(msgs, msgs')]_vars

C36_Witness ==
    /\ mode = "stream" /\ pc = "done"
    /\ Len(msgs) >= Len(messages) + 4
    /\ Len(messages) = 2

(***************************************************************************)
(* C37. With stream=True nothing is requested from the provider and no     *)
(* tool runs before the returned stream is iterated for the first time;    *)
(* the generator is started once, it moves only while the first iteration  *)
(* pulls from it, and later iterations leave it alone: so every turn is    *)
(* requested once and every tool call invoked at most once, however many   *)
(* times the stream is iterated.                                           *)
(***************************************************************************)
\* the iterations that drive the generator
FirstPasses == { p \in 1..Len(passes) : passes[p].first }

C37_OnceAndLazily ==
    /\ FirstPasses = {} =>
          /\ iteration = 0 /\ request = NoRequest
          /\ msgs = messages /\ pc = "request"
          /\ outcome = NoOutcome /\ frags = << >>
    /\ started <= 1
    /\ Cardinality(FirstPasses) <= 1
    /\ iteration \in { Len(turns), Len(turns) + 1 }
    /\ Cardinality(ParamsAt) <= CallsIn(turns)
    /\ Cardinality(ResultsAt) <= Cardinality(ParamsAt)

C37_GeneratorMovesUnderFirstPass ==
    /\ engineVars' # engineVars => (Pulling /\ passes' = passes)
    /\ passes' # passes => engineVars' = engineVars

C37_LazyAndAtMostOnce ==
    [] C37_OnceAndLazily /\ [][C37_GeneratorMovesUnderFirstPass]_vars

C37_Witness ==
    /\ Len(passes) = 3 /\ pc = "done"
    /\ iteration = 2 /\ Cardinality(ResultsAt) = 1
    /\ passes[1].first /\ passes[1].state = "ended"
    /\ ~passes[2].first /\ passes[2].state = "ended" /\ passes[2].seen # << >>
    /\ ~passes[3].first /\ passes[3].seen = stream.items

(***************************************************************************)
(* C38. Once the first iteration of a stream has stopped early (the        *)
(* consumer left it after an item, as break and all do, or the generator   *)
(* of take or take_while left its loop), the producer is never pulled      *)
(* again and the cache no longer grows: every later iteration yields the   *)
(* cached items only, which are the items pulled so far, fewer than the    *)
(* producer's whenever the producer had more.                              *)
(***************************************************************************)
\* the first iteration of the stream was left before the producer ended
StoppedEarly ==
    \/ \E p \in 1..Len(passes) : passes[p].first /\ passes[p].state = "closed"
    \/ derived.inner.first /\ derived.inner.state = "closed"

\* the first n items of the producer, as the stream yields them
Produced(n) == [ k \in 1..n |-> Mapped(source.mapper, source.items[k]) ]

C38_OnlyTheCache ==
    StoppedEarly =>
        /\ stream.items = Produced(cursor)
        /\ cursor < Len(source.items) =>
              /\ Len(stream.items) < Len(source.items)
              /\ stream.items # Produced(Len(source.items))
        /\ \A p \in 1..Len(passes) :
              ~passes[p].first =>
                  /\ IsPrefix(passes[p].seen, stream.items)
                  /\ (passes[p].on_completed /\ passes[p].state = "ended") =>
                        passes[p].seen = stream.items
        /\ (derived.inner.state # "none" /\ ~derived.inner.first) =>
              IsPrefix(derived.pulled, stream.items)

C38_ProducerLeftAlone ==
    StoppedEarly =>
        /\ cursor' = cursor /\ started' = started
        /\ stream'.items = stream.items
        /\ StoppedEarly'
        /\ \A p \in 1..Len(passes) :
              (passes[p].state = "running" /\ passes'[p].state = "ended") =>
                  passes'[p].seen = stream.items
        /\ (derived.inner.state = "running" /\ derived'.inner.state = "ended") =>
              derived'.pulled = stream.items

C38_NeverResumed ==
    [] C38_OnlyTheCache /\ [][C38_ProducerLeftAlone]_vars

C38_Witness ==
    /\ derived.op = "take" /\ derived.inner.first /\ derived.inner.state = "closed"
    /\ cursor < Len(source.items)
    /\ Len(passes) = 1 /\ ~passes[1].first /\ passes[1].state = "ended"
    /\ passes[1].seen = stream.items /\ passes[1].seen # << >>

(***************************************************************************)
(* C39. When an iteration begins while the first one is in progress, only  *)
(* the first one pulls the producer; the cache is at every moment the      *)
(* items the producer has yielded so far, in order; and the later          *)
(* iteration yields the cached items from the first on, those cached while *)
(* it runs included, and ends when it has reached the end of the cache     *)
(* without waiting for the producer.                                       *)
(***************************************************************************)
\* the replays that began while the first iteration was in progress
Concurrent == { p \in 1..Len(passes) : ~passes[p].first /\ ~passes[p].on_completed }

C39_CacheIsPrefix ==
    /\ stream.items = Produced(cursor)
    /\ Cardinality({ p \in 1..Len(passes) : passes[p].first }) <= 1
    /\ started <= 1
    /\ \A p \in Concurrent :
          /\ passes[1].first
          /\ passes[p].seen = SubSeq(stream.items, 1, passes[p].pos)
          /\ passes[p].state \in {"running", "ended", "closed"}

C39_OnlyFirstPulls ==
    /\ cursor' # cursor =>
          /\ cursor' = cursor + 1
          /\ passes[1].first /\ passes[1].state = "running"
          /\ passes'[1].seen = Append(passes[1].seen, Last(stream'.items))
          /\ \A p \in 2..Len(passes) : passes'[p] = passes[p]
    /\ \A p \in Concurrent :
          (passes'[p] # passes[p] /\ passes[p].pos = Len(stream.items)) =>
              /\ passes'[p].state \in {"ended", "closed"}
              /\ passes'[p].seen = passes[p].seen
              /\ cursor' = cursor

C39_ConcurrentReplay ==
    [] C39_CacheIsPrefix /\ [][C39_OnlyFirstPulls]_vars

C39_Witness ==
    /\ Len(passes) >= 2 /\ passes[1].first /\ passes[1].state = "ended"
    /\ 2 \in Concurrent /\ passes[2].state = "ended"
    /\ passes[2].seen # << >>
    /\ Len(passes[2].seen) < Len(passes[1].seen)
    /\ IsPrefix(passes[2].seen, passes[1].seen)

====
